---------------------------- MODULE Spec2Model ----------------------------
(***************************************************************************)
(* A model of the mission simulators and of the cruise-performance         *)
(* routines of the DC-8 replacement study (src/src/models/missions.py and  *)
(* src/src/models/performance.py).                                         *)
(*                                                                         *)
(* Numbers.  The program computes in floating point.  The model computes   *)
(* in exact rational arithmetic: a quantity is a pair <<n, d>> with d > 0  *)
(* in lowest terms.  Weights are in lb, distances in nm, altitudes in ft,  *)
(* times in hr, as in the source; the aircraft of the model are small so   *)
(* that the products stay inside TLC's integers.                           *)
(*                                                                         *)
(* Physics.  The atmosphere, the drag polar and the engine model are       *)
(* smooth real functions; what the control flow of the simulators reads    *)
(* from them (an excess thrust, a rate of climb, a fuel flow, a speed, a   *)
(* specific range) is drawn from small sets of values of the right sign,   *)
(* and every formula the source applies to those values is applied here.   *)
(***************************************************************************)
EXTENDS Integers, Sequences, FiniteSets, TLC

(***************************************************************************)
(* Rational arithmetic.                                                    *)
(***************************************************************************)
Abs(x) == IF x < 0 THEN -x ELSE x

RECURSIVE Gcd(_, _)
Gcd(a, b) == IF b = 0 THEN a ELSE Gcd(b, a % b)

\* n/d in lowest terms with a positive denominator
Rat(n, d) ==
    LET s == IF d < 0 THEN -1 ELSE 1
        g == Gcd(Abs(n), Abs(d))
    IN  <<(s * n) \div g, (s * d) \div g>>

RInt(i) == <<i, 1>>
\* common factors are cancelled before multiplying, to keep the integers small
RAdd(a, b) ==
    LET g == Gcd(a[2], b[2])
    IN  Rat(a[1] * (b[2] \div g) + b[1] * (a[2] \div g), (a[2] \div g) * b[2])
RNeg(a) == <<-a[1], a[2]>>
RSub(a, b) == RAdd(a, RNeg(b))
RMul(a, b) ==
    LET g1 == Gcd(Abs(a[1]), b[2])
        g2 == Gcd(Abs(b[1]), a[2])
    IN  Rat((a[1] \div g1) * (b[1] \div g2), (a[2] \div g2) * (b[2] \div g1))
RDiv(a, b) == RMul(a, IF b[1] < 0 THEN <<-b[2], -b[1]>> ELSE <<b[2], b[1]>>)
RLt(a, b) ==
    LET g == Gcd(a[2], b[2])
    IN  a[1] * (b[2] \div g) < b[1] * (a[2] \div g)
RLe(a, b) ==
    LET g == Gcd(a[2], b[2])
    IN  a[1] * (b[2] \div g) <= b[1] * (a[2] \div g)
RGt(a, b) == RLt(b, a)
RGe(a, b) == RLe(b, a)
RMin(a, b) == IF RLe(a, b) THEN a ELSE b
RMax(a, b) == IF RGe(a, b) THEN a ELSE b
RAbs(a) == <<Abs(a[1]), a[2]>>
RZero == RInt(0)
IsRat(a) == a[2] > 0 /\ Gcd(Abs(a[1]), a[2]) = 1

\* math.ceil of a rational
RFloor(a) == a[1] \div a[2]
RCeil(a) == IF a[1] >= 0 THEN (a[1] + a[2] - 1) \div a[2] ELSE -((-a[1]) \div a[2])

\* largest r in lo..hi with r * r <= n
RECURSIVE IntegerRoot(_, _, _)
IntegerRoot(n, lo, hi) ==
    IF lo >= hi THEN lo
    ELSE IF ((lo + hi + 1) \div 2) * ((lo + hi + 1) \div 2) <= n
    THEN IntegerRoot(n, (lo + hi + 1) \div 2, hi)
    ELSE IntegerRoot(n, lo, ((lo + hi + 1) \div 2) - 1)

(***************************************************************************)
(* Program constants.                                                      *)
(***************************************************************************)
CLIMB_DISTANCE_NM == 200
DESCENT_DISTANCE_NM == 120
\* the "small tolerance" of the feasibility tests: reserve >= -50
RESERVE_TOL_LB == 50
\* climb_ceiling = hard_ceiling + 5_000
CLIMB_MARGIN_FT == 5000
\* climb_segment's default h_step_ft and roc_min_fpm
H_STEP_FT == 1000
ROC_MIN_FPM == 100
\* descend_segment's default descent_rate_fpm; idle_fraction is 0.10
DESCENT_RATE_FPM == 2000
IDLE_FRACTION == Rat(1, 10)

(***************************************************************************)
(* Bounds of the model.                                                    *)
(***************************************************************************)
\* n_steps_per_segment of the engine-out mission (default 50)
NStepsPerSegment == 1
EnduranceSteps == 2
\* max_cycles of the sampling mission (default 50)
MaxCycles == 2

(***************************************************************************)
(* Python's None, and the reason strings.                                  *)
(***************************************************************************)
None == [none |-> TRUE]
Some(v) == [none |-> FALSE, value |-> v]

REASON_PAYLOAD == "Cannot carry payload within MTOW"
REASON_NO_CRUISE_FUEL == "No cruise fuel after f_oh overhead deduction"
REASON_NO_MISSION_FUEL == "No mission fuel after reserve deduction"
REASON_RANGE == "Range shortfall"
REASON_RESERVE == "Negative reserve fuel"
REASON_BOTH == "Range shortfall; Negative reserve fuel"
REASON_UNKNOWN == "Unknown"
REASON_ENDURANCE == "Fuel exhausted"

VARIABLES
    phase,      \* "idle" before the call, then the simulator's position
    ac,         \* the aircraft dict passed in
    cal,        \* the calibration dict passed in
    req,        \* the keyword arguments of the call
    env,        \* what the physics gives for this aircraft and calibration
    m2,         \* the locals of simulate_mission2_sampling during its loop
    m3,         \* the locals of simulate_mission3_low_altitude during its loop
    sweep,      \* the locals of optimal_cruise_altitude during its loop
    cruise,     \* the locals of step_cruise_range during its loop
    fit,        \* the locals of calibrate_aircraft and calibrate_p8_from_737
    loc,        \* the locals of a helper function during its loop
    result      \* the returned dict, [none |-> TRUE] before the return

vars == <<phase, ac, cal, req, env, m2, m3, sweep, cruise, fit, loc, result>>

(***************************************************************************)
(* The inputs.                                                             *)
(***************************************************************************)
Aircraft ==
    { [designation |-> "BIG",   OEW |-> 400, MTOW |-> 1000, max_fuel |-> 500,
       max_payload |-> 200, service_ceiling_ft |-> 6500],
      [designation |-> "SMALL", OEW |-> 100, MTOW |-> 300,  max_fuel |-> 150,
       max_payload |-> 40,  service_ceiling_ft |-> 7000],
      [designation |-> "HEAVY", OEW |-> 900, MTOW |-> 1000, max_fuel |-> 500,
       max_payload |-> 200, service_ceiling_ft |-> 6500],
      [designation |-> "LONG",  OEW |-> 2000, MTOW |-> 8000, max_fuel |-> 5000,
       max_payload |-> 200, service_ceiling_ft |-> 6500] }

Calibrations == { [f_oh |-> Rat(1, 10)], [f_oh |-> Rat(1, 2)] }

Payloads == {30, 100, 250}
Distances == {450, 600}
FailurePoints == {100, 260, 900}

\* the sampling mission: distance_nm and h_low_ft
SamplingDistances == {0, 25}
H_LOW_FT == 5000
\* mission durations in hours
Durations == {0, 2}

\* alternate_fuel + hold_fuel of compute_reserve_fuel, which depend on the
\* aircraft and on the calibration only
FixedReserves == { Rat(195, 2), RInt(1000) }

\* specific range of one cruise segment, nm per lb of fuel
SpecificRanges == { Rat(1, 4), Rat(1, 2) }

(***************************************************************************)
(* Step 1 of every simulator: fleet sizing.                                *)
(***************************************************************************)
\* a variant of FleetSizing that rounds the fleet size down
FleetSizing_floor(a, payload_lb) ==
    IF a.max_payload < payload_lb
    THEN LET n == payload_lb \div a.max_payload
         IN  [n_aircraft |-> n, actual_payload |-> Rat(payload_lb, n)]
    ELSE [n_aircraft |-> 1, actual_payload |-> RInt(payload_lb)]

FleetSizing(a, payload_lb) ==
    LET first == IF payload_lb <= a.max_payload THEN payload_lb ELSE a.max_payload
    IN  IF first < payload_lb
        THEN LET n == RCeil(Rat(payload_lb, a.max_payload))
             IN  [n_aircraft |-> n, actual_payload |-> Rat(payload_lb, n)]
        ELSE [n_aircraft |-> 1, actual_payload |-> RInt(first)]

\* a variant of FuelAvailable that ignores the take-off weight limit
FuelAvailable_tank(a, actual_payload) == RInt(a.max_fuel)

\* Step 2: fuel_available = min(MTOW - OEW - actual_payload, max_fuel)
FuelAvailable(a, actual_payload) ==
    RMin(RSub(RInt(a.MTOW - a.OEW), actual_payload), RInt(a.max_fuel))

\* a variant of infeasible_result that drops the reason
infeasible_result_silent(a, payload_requested, payload_actual, n_aircraft, reason) ==
    [ feasible |-> FALSE,
      infeasible_reason |-> None,
      designation |-> a.designation,
      payload_requested_lb |-> payload_requested,
      payload_actual_lb |-> payload_actual,
      n_aircraft |-> n_aircraft,
      per_aircraft |-> None,
      aggregate |-> None ]

infeasible_result(a, payload_requested, payload_actual, n_aircraft, reason) ==
    [ feasible |-> FALSE,
      infeasible_reason |-> Some(reason),
      designation |-> a.designation,
      payload_requested_lb |-> payload_requested,
      payload_actual_lb |-> payload_actual,
      n_aircraft |-> n_aircraft,
      per_aircraft |-> None,
      aggregate |-> None ]

determine_infeasibility(total_range, required_range, reserve) ==
    LET short == RLt(total_range, required_range)
        neg == RLt(reserve, RZero)
    IN  IF short /\ neg THEN REASON_BOTH
        ELSE IF short THEN REASON_RANGE
        ELSE IF neg THEN REASON_RESERVE
        ELSE REASON_UNKNOWN


(***************************************************************************)
(* performance.py: the Breguet range of one segment and step_cruise_range. *)
(* The factor (V / c) * (L/D) * ln(Wi / Wf) of a segment is its specific   *)
(* range sr (a positive number of nm per lb, which the altitude optimiser  *)
(* and the drag multiplier only change the value of) times the fuel burned.*)
(***************************************************************************)
\* what a call that raises ValueError gives instead of a number
ValueError == <<"ValueError">>

\* the two tests of breguet_range_nm in the other order
breguet_range_nm_raise_first(sr, W_initial_lb, W_final_lb) ==
    IF RLe(W_final_lb, RZero) THEN ValueError
    ELSE IF RGe(W_final_lb, W_initial_lb) THEN RZero
    ELSE RMul(sr, RSub(W_initial_lb, W_final_lb))

breguet_range_nm(sr, W_initial_lb, W_final_lb) ==
    IF RGe(W_final_lb, W_initial_lb) THEN RZero
    ELSE IF RLe(W_final_lb, RZero) THEN ValueError
    ELSE RMul(sr, RSub(W_initial_lb, W_final_lb))

\* the state of the loop of step_cruise_range before its first iteration
CruiseStart(W_initial_lb) ==
    [ total_range |-> RZero, total_fuel |-> RZero, W_current |-> W_initial_lb,
      segments |-> <<>>, broke |-> FALSE, raised |-> FALSE ]

\* a variant of CruiseStep that forgets to carry the weight forward
CruiseStep_stale(st, i, fuel_per_step, sr) ==
    LET W_start == st.W_current
        W_end == RSub(st.W_current, fuel_per_step)
        total_range == RAdd(st.total_range, RMul(sr, fuel_per_step))
        total_fuel == RAdd(st.total_fuel, fuel_per_step)
    IN  IF RLe(W_end, RZero)
        THEN [st EXCEPT !.broke = TRUE]
        ELSE [st EXCEPT
                !.total_range = total_range,
                !.total_fuel = total_fuel,
                !.segments = Append(@,
                    [ step |-> i, W_start_lb |-> W_start, W_end_lb |-> W_end,
                      range_nm |-> RMul(sr, fuel_per_step),
                      cumulative_range_nm |-> total_range,
                      cumulative_fuel_lb |-> total_fuel ])]

\* one iteration i (0-based) of the loop, for a fuel_per_step and the
\* specific range sr of the segment
CruiseStep(st, i, fuel_per_step, sr) ==
    LET W_start == st.W_current
        W_end == RSub(st.W_current, fuel_per_step)
    IN  IF RLe(W_end, RZero)
        THEN [st EXCEPT !.broke = TRUE]
        ELSE LET seg_range == breguet_range_nm(sr, W_start, W_end)
                 total_range == RAdd(st.total_range, seg_range)
                 total_fuel == RAdd(st.total_fuel, fuel_per_step)
             IN  IF seg_range = ValueError THEN [st EXCEPT !.raised = TRUE]
                 ELSE
                 [ total_range |-> total_range,
                   total_fuel |-> total_fuel,
                   W_current |-> W_end,
                   segments |-> Append(st.segments,
                       [ step |-> i, W_start_lb |-> W_start, W_end_lb |-> W_end,
                         range_nm |-> seg_range,
                         cumulative_range_nm |-> total_range,
                         cumulative_fuel_lb |-> total_fuel ]),
                   broke |-> FALSE, raised |-> FALSE ]

RECURSIVE CruiseLoop(_, _, _, _, _)
CruiseLoop(st, i, n_steps, fuel_per_step, srs) ==
    IF i >= n_steps \/ st.broke \/ st.raised THEN st
    ELSE CruiseLoop(CruiseStep(st, i, fuel_per_step, srs[i + 1]),
                    i + 1, n_steps, fuel_per_step, srs)

\* the dictionary that step_cruise_range returns from the state of its loop
CruiseResult(st) ==
    [ range_nm |-> st.total_range, fuel_burned_lb |-> st.total_fuel,
      segments |-> st.segments, raised |-> st.raised ]

step_cruise_range(W_initial_lb, fuel_available_lb, n_steps, srs) ==
    CruiseResult(CruiseLoop(CruiseStart(W_initial_lb), 0, n_steps,
                            RDiv(fuel_available_lb, RInt(n_steps)), srs))

(***************************************************************************)
(* missions.py: _find_fuel_at_distance.                                    *)
(***************************************************************************)
RECURSIVE FindLoop(_, _, _, _)
FindLoop(segments, target_range_nm, i, truncated) ==
    IF i > Len(segments)
    THEN LET last == segments[Len(segments)]
         IN  [ fuel_burned_lb |-> last.cumulative_fuel_lb,
               weight_lb |-> last.W_end_lb,
               segments |-> truncated, reached |-> FALSE ]
    ELSE LET s == segments[i] IN
         IF RGe(s.cumulative_range_nm, target_range_nm)
         THEN LET prev_cum_range == IF i > 1 THEN segments[i - 1].cumulative_range_nm
                                    ELSE RZero
                  prev_cum_fuel == IF i > 1 THEN segments[i - 1].cumulative_fuel_lb
                                   ELSE RZero
                  range_into_step == RSub(target_range_nm, prev_cum_range)
                  frac0 == IF RGt(s.range_nm, RZero)
                           THEN RDiv(range_into_step, s.range_nm) ELSE RInt(1)
                  frac == RMin(RMax(frac0, RZero), RInt(1))
                  step_fuel == RSub(s.W_start_lb, s.W_end_lb)
                  interpolated_fuel == RMul(step_fuel, frac)
                  fuel_burned == RAdd(prev_cum_fuel, interpolated_fuel)
                  weight == RSub(s.W_start_lb, interpolated_fuel)
                  partial == [s EXCEPT !.range_nm = RMul(s.range_nm, frac),
                                       !.cumulative_range_nm = target_range_nm,
                                       !.cumulative_fuel_lb = fuel_burned,
                                       !.W_end_lb = weight]
              IN  [ fuel_burned_lb |-> fuel_burned, weight_lb |-> weight,
                    segments |-> Append(truncated, partial), reached |-> TRUE ]
         ELSE FindLoop(segments, target_range_nm, i + 1, Append(truncated, s))

find_fuel_at_distance(segments, target_range_nm) ==
    IF segments = <<>>
    THEN [ fuel_burned_lb |-> RZero, weight_lb |-> RZero, segments |-> <<>>,
           reached |-> FALSE ]
    ELSE FindLoop(segments, target_range_nm, 1, <<>>)

\* s["cumulative_range_nm"] += offset, for every segment of a list
OffsetSegments(segments, offset) ==
    [ i \in 1..Len(segments) |->
        [segments[i] EXCEPT !.cumulative_range_nm = RAdd(@, offset)] ]

(***************************************************************************)
(* missions.py: simulate_mission1_engine_out.  srs1 and srs2 are the       *)
(* specific ranges of the segments of the two step_cruise_range calls.     *)
(* The fuel-cost annotations of the result are left out: they are computed *)
(* from the fields kept here and nothing reads them.                       *)
(***************************************************************************)
\* a variant of Mission1Feasible with the range test the wrong way round
Mission1Feasible_reversed(total_range, distance_nm, reserve_remaining) ==
    RLe(total_range, RInt(distance_nm))
        /\ RGe(reserve_remaining, RInt(-RESERVE_TOL_LB))

\* a variant of Mission1Feasible with a strict range test
Mission1Feasible_strict(total_range, distance_nm, reserve_remaining) ==
    RGt(total_range, RInt(distance_nm))
        /\ RGe(reserve_remaining, RInt(-RESERVE_TOL_LB))

Mission1Feasible(total_range, distance_nm, reserve_remaining) ==
    RGe(total_range, RInt(distance_nm))
        /\ RGe(reserve_remaining, RInt(-RESERVE_TOL_LB))

Mission1TotalRange(seg1_range, seg2_range) ==
    RAdd(RAdd(RAdd(seg1_range, seg2_range), RInt(CLIMB_DISTANCE_NM)),
         RInt(DESCENT_DISTANCE_NM))

\* Steps 1-3: fleet sizing, the fuel load and the fuel budget
Mission1Load(a, c, payload_lb) ==
    LET fleet == FleetSizing(a, payload_lb)
        fuel_available == FuelAvailable(a, fleet.actual_payload)
        W_tow == RAdd(RAdd(RInt(a.OEW), fleet.actual_payload), fuel_available)
        non_cruise_fuel == RMul(c.f_oh, W_tow)
    IN  [ actual_payload |-> fleet.actual_payload,
          n_aircraft |-> fleet.n_aircraft,
          fuel_available |-> fuel_available,
          W_tow |-> W_tow,
          non_cruise_fuel |-> non_cruise_fuel,
          cruise_fuel |-> RSub(fuel_available, non_cruise_fuel) ]

\* Steps 7-9 for the loaded aircraft ld, the cruise to the failure point
\* seg1_split (of range seg1_range) and the engine-out cruise seg2_result
Mission1Result(a, payload_lb, distance_nm, ld, seg1_split, seg1_range, seg2_result) ==
    LET seg1_fuel_burned == seg1_split.fuel_burned_lb
        seg1_segments == seg1_split.segments
        W_at_failure == RSub(ld.W_tow, seg1_fuel_burned)
        seg2_range == seg2_result.range_nm
        seg2_fuel_burned == seg2_result.fuel_burned_lb
        seg2_segments == seg2_result.segments
        total_cruise_range == RAdd(seg1_range, seg2_range)
        total_range == Mission1TotalRange(seg1_range, seg2_range)
        total_fuel_burned == RAdd(seg1_fuel_burned, seg2_fuel_burned)
        reserve_remaining == RSub(ld.cruise_fuel, total_fuel_burned)
        feasible == Mission1Feasible(total_range, distance_nm, reserve_remaining)
        \* Step 7b: fuel on board at the destination
        combined_for_fad ==
            seg1_segments \o
            [ i \in 1..Len(seg2_segments) |->
                [seg2_segments[i] EXCEPT
                    !.cumulative_range_nm = RAdd(seg1_range, @),
                    !.cumulative_fuel_lb = RAdd(seg1_fuel_burned, @)] ]
        fad_result == find_fuel_at_distance(combined_for_fad,
                          RInt(distance_nm - CLIMB_DISTANCE_NM - DESCENT_DISTANCE_NM))
        fuel_at_destination_lb ==
            IF feasible /\ fad_result.reached
            THEN Some(RSub(ld.cruise_fuel, fad_result.fuel_burned_lb)) ELSE None
        per_aircraft ==
            [ takeoff_weight_lb |-> ld.W_tow,
              oew_lb |-> a.OEW,
              payload_lb |-> ld.actual_payload,
              total_fuel_lb |-> ld.fuel_available,
              non_cruise_fuel_lb |-> ld.non_cruise_fuel,
              cruise_fuel_lb |-> ld.cruise_fuel,
              segment1 |-> [ range_nm |-> seg1_range,
                             fuel_burned_lb |-> seg1_fuel_burned,
                             weight_at_start_lb |-> ld.W_tow,
                             weight_at_end_lb |-> W_at_failure,
                             segments |-> OffsetSegments(seg1_segments,
                                              RInt(CLIMB_DISTANCE_NM)) ],
              segment2 |-> [ range_nm |-> seg2_range,
                             fuel_burned_lb |-> seg2_fuel_burned,
                             weight_at_start_lb |-> W_at_failure,
                             weight_at_end_lb |-> RSub(W_at_failure, seg2_fuel_burned),
                             segments |-> OffsetSegments(seg2_segments,
                                              RAdd(RInt(CLIMB_DISTANCE_NM), seg1_range)) ],
              climb_credit_nm |-> CLIMB_DISTANCE_NM,
              descent_credit_nm |-> DESCENT_DISTANCE_NM,
              total_range_nm |-> total_range,
              cruise_range_nm |-> total_cruise_range,
              range_surplus_nm |-> RSub(total_range, RInt(distance_nm)),
              total_fuel_burned_lb |-> total_fuel_burned,
              reserve_fuel_lb |-> RMax(reserve_remaining, RZero),
              fuel_at_destination_lb |-> fuel_at_destination_lb ]
        aggregate ==
            IF ld.n_aircraft > 1
            THEN Some([ n_aircraft |-> ld.n_aircraft,
                        total_payload_lb |-> RMul(RInt(ld.n_aircraft), ld.actual_payload),
                        total_fuel_lb |-> RMul(RInt(ld.n_aircraft), ld.fuel_available),
                        total_fuel_burned_lb |->
                            RMul(RInt(ld.n_aircraft), total_fuel_burned) ])
            ELSE None
    IN  IF seg2_result.raised
        THEN [exception |-> ValueError]
        ELSE [ feasible |-> feasible,
               infeasible_reason |->
                   IF feasible THEN None
                   ELSE Some(determine_infeasibility(total_range, RInt(distance_nm),
                                                     reserve_remaining)),
               designation |-> a.designation,
               payload_requested_lb |-> payload_lb,
               payload_actual_lb |-> ld.actual_payload,
               n_aircraft |-> ld.n_aircraft,
               per_aircraft |-> Some(per_aircraft),
               aggregate |-> aggregate ]

\* Step 5: the engine-out cruise on the fuel that is left at the failure point
Mission1Segment2(a, payload_lb, distance_nm, n_steps_per_segment, srs2, ld, seg1_split) ==
    LET seg1_range == IF seg1_split.segments # <<>>
                      THEN seg1_split.segments[Len(seg1_split.segments)].cumulative_range_nm
                      ELSE RZero
        W_at_failure == RSub(ld.W_tow, seg1_split.fuel_burned_lb)
        remaining_cruise_fuel == RSub(ld.cruise_fuel, seg1_split.fuel_burned_lb)
    IN  Mission1Result(a, payload_lb, distance_nm, ld, seg1_split, seg1_range,
            IF RGt(remaining_cruise_fuel, RZero)
            THEN step_cruise_range(W_at_failure, remaining_cruise_fuel,
                                   n_steps_per_segment, srs2)
            ELSE [range_nm |-> RZero, fuel_burned_lb |-> RZero,
                  segments |-> <<>>, raised |-> FALSE])

\* Step 4: the four-engine cruise seg1_full, cut at the failure point
Mission1Segment1(a, payload_lb, distance_nm, failure_point_nm, n_steps_per_segment, srs2, ld, seg1_full) ==
    LET cruise_to_failure == IF failure_point_nm - CLIMB_DISTANCE_NM <= 0 THEN 0
                             ELSE failure_point_nm - CLIMB_DISTANCE_NM
    IN  IF seg1_full.raised
        THEN [exception |-> ValueError]
        ELSE Mission1Segment2(a, payload_lb, distance_nm, n_steps_per_segment, srs2, ld,
                 find_fuel_at_distance(seg1_full.segments, RInt(cruise_to_failure)))

\* the two early returns of steps 2 and 3, then the cruise
Mission1Cruise(a, payload_lb, distance_nm, failure_point_nm, n_steps_per_segment, srs1, srs2, ld) ==
    IF RLe(ld.fuel_available, RZero)
    THEN infeasible_result(a, payload_lb, ld.actual_payload, ld.n_aircraft, REASON_PAYLOAD)
    ELSE IF RLe(ld.cruise_fuel, RZero)
    THEN infeasible_result(a, payload_lb, ld.actual_payload, ld.n_aircraft,
                           REASON_NO_CRUISE_FUEL)
    ELSE Mission1Segment1(a, payload_lb, distance_nm, failure_point_nm,
             n_steps_per_segment, srs2, ld,
             step_cruise_range(ld.W_tow, ld.cruise_fuel, n_steps_per_segment * 2, srs1))

simulate_mission1_engine_out(a, c, payload_lb, distance_nm, failure_point_nm, n_steps_per_segment, srs1, srs2) ==
    Mission1Cruise(a, payload_lb, distance_nm, failure_point_nm, n_steps_per_segment,
                   srs1, srs2, Mission1Load(a, c, payload_lb))

(***************************************************************************)
(* performance.py: compute_reserve_fuel.  fixed_reserves is the sum of the *)
(* alternate and hold fuel.                                                *)
(***************************************************************************)
\* a reserve without the final clamp
compute_reserve_fuel_unclamped(total_fuel_lb, fixed_reserves) ==
    RDiv(RAdd(RMul(Rat(5, 100), total_fuel_lb), fixed_reserves), Rat(105, 100))

compute_reserve_fuel(total_fuel_lb, fixed_reserves) ==
    LET total_reserve == RDiv(RAdd(RMul(Rat(5, 100), total_fuel_lb), fixed_reserves),
                              Rat(105, 100))
    IN  RMin(total_reserve, RMul(total_fuel_lb, Rat(95, 100)))

(***************************************************************************)
(* missions.py: climb_segment.  What one altitude step reads from the      *)
(* physics is p = PhysAt(o, i): the excess thrust, the rate of climb, the  *)
(* fuel flow thrust_required * tsfc and the horizontal speed V * cos gamma *)
(* in knots.  A climb oracle o gives o.n steps that can climb (the values  *)
(* of the first bands from o.g, the last band extending upward) and then   *)
(* a step that cannot (o.stop).                                            *)
(***************************************************************************)
GoSteps ==
    { [excess_thrust |-> 20, roc_fpm |-> 1000, fuel_flow_lbhr |-> 1200, horiz_ktas |-> 360],
      [excess_thrust |-> 10, roc_fpm |-> 500,  fuel_flow_lbhr |-> 1200, horiz_ktas |-> 300] }

StopSteps ==
    { [excess_thrust |-> 0, roc_fpm |-> 0,  fuel_flow_lbhr |-> 1200, horiz_ktas |-> 300],
      [excess_thrust |-> 1, roc_fpm |-> 50, fuel_flow_lbhr |-> 1200, horiz_ktas |-> 300] }

\* bands of altitude steps whose values are drawn separately
PhysBands == 2
\* number of steps that can climb: none, one, or more than any climb has
StopAfter == {0, 1, 8}

ClimbOracles == [ g : [1..PhysBands -> GoSteps], n : StopAfter, stop : StopSteps ]

PhysAt(o, i) ==
    IF i <= o.n THEN o.g[IF i <= PhysBands THEN i ELSE PhysBands] ELSE o.stop

RECURSIVE ClimbLoop(_, _, _)
ClimbLoop(st, h_target_ft, o) ==
    IF ~(st.h_current < h_target_ft) THEN st
    ELSE LET dh == IF H_STEP_FT <= h_target_ft - st.h_current THEN H_STEP_FT
                   ELSE h_target_ft - st.h_current
             p == PhysAt(o, Len(st.steps) + 1)
         IN  IF p.excess_thrust <= 0 THEN [st EXCEPT !.ceiling_limited = TRUE]
             ELSE IF p.roc_fpm < ROC_MIN_FPM THEN [st EXCEPT !.ceiling_limited = TRUE]
             ELSE LET dt_hr == Rat(dh, p.roc_fpm * 60)
                      fuel_this_step == RMul(RInt(p.fuel_flow_lbhr), dt_hr)
                      dist_nm == RMul(RInt(p.horiz_ktas), dt_hr)
                  IN  ClimbLoop(
                        [ total_fuel |-> RAdd(st.total_fuel, fuel_this_step),
                          total_distance_nm |-> RAdd(st.total_distance_nm, dist_nm),
                          total_time_hr |-> RAdd(st.total_time_hr, dt_hr),
                          W_current |-> RSub(st.W_current, fuel_this_step),
                          h_current |-> st.h_current + dh,
                          steps |-> Append(st.steps,
                              [ h_start_ft |-> st.h_current,
                                h_end_ft |-> st.h_current + dh,
                                W_start_lb |-> st.W_current,
                                fuel_lb |-> fuel_this_step,
                                distance_nm |-> dist_nm,
                                time_hr |-> dt_hr,
                                roc_fpm |-> p.roc_fpm,
                                excess_thrust_lbf |-> p.excess_thrust ]),
                          ceiling_limited |-> FALSE ],
                        h_target_ft, o)

\* a ClimbResult that never reports a ceiling
ClimbResult_unflagged(st) ==
    [ fuel_burned_lb |-> st.total_fuel, distance_nm |-> st.total_distance_nm,
      time_hr |-> st.total_time_hr, ceiling_ft |-> st.h_current,
      steps |-> st.steps, ceiling_limited |-> FALSE ]

\* the dictionary that climb_segment returns from the state of its loop
ClimbResult(st) ==
    [ fuel_burned_lb |-> st.total_fuel, distance_nm |-> st.total_distance_nm,
      time_hr |-> st.total_time_hr, ceiling_ft |-> st.h_current,
      steps |-> st.steps, ceiling_limited |-> st.ceiling_limited ]

climb_segment(W_start_lb, h_start_ft, h_target_ft, o) ==
    IF h_start_ft >= h_target_ft
    THEN [ fuel_burned_lb |-> RZero, distance_nm |-> RZero, time_hr |-> RZero,
           ceiling_ft |-> h_start_ft, steps |-> <<>>, ceiling_limited |-> FALSE ]
    ELSE ClimbResult(ClimbLoop([ total_fuel |-> RZero, total_distance_nm |-> RZero,
                                 total_time_hr |-> RZero, W_current |-> W_start_lb,
                                 h_current |-> h_start_ft, steps |-> <<>>,
                                 ceiling_limited |-> FALSE ], h_target_ft, o))

(***************************************************************************)
(* missions.py: descend_segment.  d gives the cruise fuel flow             *)
(* drag * tsfc and the true airspeed at the mid-descent altitude.          *)
(***************************************************************************)
DescentOracles ==
    { [cruise_fuel_flow_lbhr |-> 8000, V_ktas |-> 400],
      [cruise_fuel_flow_lbhr |-> 32000, V_ktas |-> 320] }

\* a descend_segment without its guard for a start at or below the target
descend_segment_unguarded(h_start_ft, h_target_ft, d) ==
    LET delta_h == RSub(h_start_ft, h_target_ft)
        time_min == RDiv(delta_h, RInt(DESCENT_RATE_FPM))
        time_hr == RDiv(time_min, RInt(60))
    IN  [ fuel_burned_lb |-> RMul(RMul(IDLE_FRACTION, RInt(d.cruise_fuel_flow_lbhr)),
                                  time_hr),
          distance_nm |-> RMul(RInt(d.V_ktas), time_hr),
          time_hr |-> time_hr ]

descend_segment(h_start_ft, h_target_ft, d) ==
    IF RLe(h_start_ft, h_target_ft)
    THEN [ fuel_burned_lb |-> RZero, distance_nm |-> RZero, time_hr |-> RZero ]
    ELSE LET delta_h == RSub(h_start_ft, h_target_ft)
             time_min == RDiv(delta_h, RInt(DESCENT_RATE_FPM))
             time_hr == RDiv(time_min, RInt(60))
         IN  [ fuel_burned_lb |-> RMul(RMul(IDLE_FRACTION, RInt(d.cruise_fuel_flow_lbhr)),
                                       time_hr),
               distance_nm |-> RMul(RInt(d.V_ktas), time_hr),
               time_hr |-> time_hr ]

(***************************************************************************)
(* missions.py: simulate_mission2_sampling, the hard-ceiling cap of a      *)
(* climb (lines 695-721).                                                  *)
(***************************************************************************)
RECURSIVE TruncateLoop(_, _, _, _)
TruncateLoop(steps, hard_ceiling, i, acc) ==
    IF i > Len(steps) THEN acc
    ELSE LET step == steps[i] IN
         IF step.h_end_ft <= hard_ceiling
         THEN TruncateLoop(steps, hard_ceiling, i + 1,
                  [ climb_fuel |-> RAdd(acc.climb_fuel, step.fuel_lb),
                    climb_dist |-> RAdd(acc.climb_dist, step.distance_nm),
                    climb_time |-> RAdd(acc.climb_time, step.time_hr) ])
         ELSE IF step.h_start_ft < hard_ceiling
         THEN LET frac == Rat(hard_ceiling - step.h_start_ft,
                              step.h_end_ft - step.h_start_ft)
              IN  [ climb_fuel |-> RAdd(acc.climb_fuel, RMul(step.fuel_lb, frac)),
                    climb_dist |-> RAdd(acc.climb_dist, RMul(step.distance_nm, frac)),
                    climb_time |-> RAdd(acc.climb_time, RMul(step.time_hr, frac)) ]
         ELSE acc

\* the truncated sums t with cycle_ceiling = hard_ceiling (line 721)
Truncated(t, hard_ceiling) ==
    [ climb_fuel |-> t.climb_fuel, climb_dist |-> t.climb_dist,
      climb_time |-> t.climb_time, cycle_ceiling |-> RInt(hard_ceiling) ]

\* a variant of CapClimb that never truncates
CapClimb_uncapped(climb_result, hard_ceiling) ==
    [ climb_fuel |-> climb_result.fuel_burned_lb,
      climb_dist |-> climb_result.distance_nm,
      climb_time |-> climb_result.time_hr,
      cycle_ceiling |-> RInt(climb_result.ceiling_ft) ]

CapClimb(climb_result, hard_ceiling) ==
    IF climb_result.ceiling_ft <= hard_ceiling
    THEN [ climb_fuel |-> climb_result.fuel_burned_lb,
           climb_dist |-> climb_result.distance_nm,
           climb_time |-> climb_result.time_hr,
           cycle_ceiling |-> RInt(climb_result.ceiling_ft) ]
    ELSE Truncated(TruncateLoop(climb_result.steps, hard_ceiling, 1,
                       [climb_fuel |-> RZero, climb_dist |-> RZero, climb_time |-> RZero]),
                   hard_ceiling)

(***************************************************************************)
(* missions.py: simulate_mission2_sampling.  Steps 1-4 (SamplingStart),    *)
(* one iteration of the cycle loop (SamplingCycle) and steps 6-10          *)
(* (SamplingResult).                                                       *)
(***************************************************************************)
\* a variant of SamplingStart that also sets the overhead fraction f_oh aside
SamplingStart_overhead(a, c, fixed_reserves, payload_lb) ==
    LET fleet == FleetSizing(a, payload_lb)
        fuel_available == FuelAvailable(a, fleet.actual_payload)
        W_tow == RAdd(RAdd(RInt(a.OEW), fleet.actual_payload), fuel_available)
        reserve_fuel == compute_reserve_fuel(fuel_available, fixed_reserves)
        mission_fuel == RSub(RSub(fuel_available, reserve_fuel), RMul(c.f_oh, W_tow))
    IN  [ actual_payload |-> fleet.actual_payload,
          n_aircraft |-> fleet.n_aircraft,
          fuel_available |-> fuel_available,
          W_tow |-> W_tow,
          reserve_fuel |-> reserve_fuel,
          mission_fuel |-> mission_fuel,
          hard_ceiling |-> a.service_ceiling_ft,
          climb_ceiling |-> a.service_ceiling_ft + CLIMB_MARGIN_FT,
          W_current |-> W_tow,
          fuel_remaining |-> mission_fuel,
          distance_covered |-> RZero,
          total_time_hr |-> RZero,
          cycles |-> <<>>,
          cycle_num |-> 1,
          exit |-> "running",
          climb_result |-> None,
          capped |-> None ]

\* c is the calibration: CD0, e and k_adj are read from it (the physics),
\* f_oh is not
SamplingStart(a, c, fixed_reserves, payload_lb) ==
    LET fleet == FleetSizing(a, payload_lb)
        fuel_available == FuelAvailable(a, fleet.actual_payload)
        W_tow == RAdd(RAdd(RInt(a.OEW), fleet.actual_payload), fuel_available)
        reserve_fuel == compute_reserve_fuel(fuel_available, fixed_reserves)
        mission_fuel == RSub(fuel_available, reserve_fuel)
    IN  [ actual_payload |-> fleet.actual_payload,
          n_aircraft |-> fleet.n_aircraft,
          fuel_available |-> fuel_available,
          W_tow |-> W_tow,
          reserve_fuel |-> reserve_fuel,
          mission_fuel |-> mission_fuel,
          hard_ceiling |-> a.service_ceiling_ft,
          climb_ceiling |-> a.service_ceiling_ft + CLIMB_MARGIN_FT,
          W_current |-> W_tow,
          fuel_remaining |-> mission_fuel,
          distance_covered |-> RZero,
          total_time_hr |-> RZero,
          cycles |-> <<>>,
          cycle_num |-> 1,
          exit |-> "running",
          climb_result |-> None,
          capped |-> None ]

CycleRecord(st, cycle_ceiling, climb_fuel, climb_dist, climb_time, descent_fuel, descent_dist, descent_time, W_end, partial) ==
    [ cycle |-> st.cycle_num,
      ceiling_ft |-> cycle_ceiling,
      climb_fuel_lb |-> climb_fuel,
      climb_distance_nm |-> climb_dist,
      climb_time_hr |-> climb_time,
      descent_fuel_lb |-> descent_fuel,
      descent_distance_nm |-> descent_dist,
      descent_time_hr |-> descent_time,
      total_fuel_lb |-> RAdd(climb_fuel, descent_fuel),
      total_distance_nm |-> RAdd(climb_dist, descent_dist),
      total_time_hr |-> RAdd(climb_time, descent_time),
      weight_start_lb |-> st.W_current,
      weight_end_lb |-> W_end,
      partial |-> partial ]

\* a variant of ZeroProgress that never fires
ZeroProgress_never(climb_dist, climb_fuel) == FALSE

\* the zero-progress guard of line 727
ZeroProgress(climb_dist, climb_fuel) ==
    RLe(climb_dist, RZero) /\ RLe(climb_fuel, RZero)

\* a variant of LoopGuard that stops 20 nm short of the distance target
LoopGuard_short(fuel_remaining, distance_covered, distance_nm) ==
    RLe(fuel_remaining, RZero)
        \/ RGe(RAdd(distance_covered, RInt(20)), RInt(distance_nm))

\* the loop guard of line 669
LoopGuard(fuel_remaining, distance_covered, distance_nm) ==
    RLe(fuel_remaining, RZero) \/ RGe(distance_covered, RInt(distance_nm))

\* a variant of SamplingDescent that charges the whole descent even when
\* the fuel runs out on the way down
SamplingDescent_unclamped(st, seen, capped, descent_result) ==
    LET W_top == RSub(st.W_current, capped.climb_fuel)
        fuel_top == RSub(st.fuel_remaining, capped.climb_fuel)
        descent_fuel == descent_result.fuel_burned_lb
        W_end == RSub(W_top, descent_fuel)
    IN  [seen EXCEPT
           !.W_current = W_end,
           !.fuel_remaining = RSub(fuel_top, descent_fuel),
           !.cycles = Append(@, CycleRecord(st, capped.cycle_ceiling,
                          capped.climb_fuel, capped.climb_dist,
                          capped.climb_time, descent_fuel,
                          descent_result.distance_nm, descent_result.time_hr,
                          W_end, FALSE)),
           !.distance_covered =
               RAdd(@, RAdd(capped.climb_dist, descent_result.distance_nm)),
           !.total_time_hr =
               RAdd(@, RAdd(capped.climb_time, descent_result.time_hr)),
           !.cycle_num = @ + 1]

\* lines 795-841: the descent of a cycle whose climb capped has completed
SamplingDescent(st, seen, capped, descent_result) ==
    LET W_top == RSub(st.W_current, capped.climb_fuel)
        fuel_top == RSub(st.fuel_remaining, capped.climb_fuel)
        over == RGt(descent_result.fuel_burned_lb, fuel_top)
        frac == IF RGt(descent_result.fuel_burned_lb, RZero)
                THEN RDiv(fuel_top, descent_result.fuel_burned_lb)
                ELSE RZero
        descent_fuel == IF over THEN fuel_top
                        ELSE descent_result.fuel_burned_lb
        descent_dist == IF over THEN RMul(descent_result.distance_nm, frac)
                        ELSE descent_result.distance_nm
        descent_time == IF over THEN RMul(descent_result.time_hr, frac)
                        ELSE descent_result.time_hr
        W_end == RSub(W_top, descent_fuel)
    IN  [seen EXCEPT
           !.W_current = W_end,
           !.fuel_remaining = IF over THEN RZero
                              ELSE RSub(fuel_top, descent_fuel),
           !.cycles = Append(@, CycleRecord(st, capped.cycle_ceiling,
                          capped.climb_fuel, capped.climb_dist,
                          capped.climb_time, descent_fuel, descent_dist,
                          descent_time, W_end, FALSE)),
           !.distance_covered =
               RAdd(@, RAdd(capped.climb_dist, descent_dist)),
           !.total_time_hr =
               RAdd(@, RAdd(capped.climb_time, descent_time)),
           !.cycle_num = @ + 1]

\* lines 723-841: a cycle from its capped climb on
SamplingClimbed(st, seen, capped, distance_nm, h_low_ft, d) ==
    IF ZeroProgress(capped.climb_dist, capped.climb_fuel)
    THEN [seen EXCEPT !.exit = "zero_progress"]
    ELSE IF RGt(capped.climb_fuel, st.fuel_remaining)
    THEN \* partial climb: the fuel runs out on the way up
         LET frac == IF RGt(capped.climb_fuel, RZero)
                     THEN RDiv(st.fuel_remaining, capped.climb_fuel) ELSE RZero
             climb_fuel == st.fuel_remaining
             climb_dist == RMul(capped.climb_dist, frac)
             climb_time == RMul(capped.climb_time, frac)
             cycle_ceiling == RAdd(RInt(h_low_ft),
                                   RMul(RSub(capped.cycle_ceiling, RInt(h_low_ft)), frac))
             W_end == RSub(st.W_current, climb_fuel)
         IN  [seen EXCEPT
                !.W_current = W_end,
                !.fuel_remaining = RZero,
                !.cycles = Append(@, CycleRecord(st, cycle_ceiling, climb_fuel,
                               climb_dist, climb_time, RZero, RZero, RZero,
                               W_end, TRUE)),
                !.distance_covered = RAdd(@, climb_dist),
                !.total_time_hr = RAdd(@, climb_time),
                !.exit = "partial_climb"]
    ELSE IF RGe(RAdd(st.distance_covered, capped.climb_dist), RInt(distance_nm))
    THEN \* distance goal reached during the climb
         [seen EXCEPT
            !.W_current = RSub(st.W_current, capped.climb_fuel),
            !.fuel_remaining = RSub(st.fuel_remaining, capped.climb_fuel),
            !.cycles = Append(@, CycleRecord(st, capped.cycle_ceiling,
                           capped.climb_fuel, capped.climb_dist,
                           capped.climb_time, RZero, RZero, RZero,
                           RSub(st.W_current, capped.climb_fuel), TRUE)),
            !.distance_covered = RAdd(@, capped.climb_dist),
            !.total_time_hr = RAdd(@, capped.climb_time),
            !.exit = "distance_in_climb"]
    ELSE SamplingDescent(st, seen, capped,
             descend_segment(capped.cycle_ceiling, RInt(h_low_ft), d))

\* lines 695-721: the climb of a cycle, capped at the hard ceiling
SamplingCapped(st, climb_result, capped, distance_nm, h_low_ft, d) ==
    SamplingClimbed(st,
        [st EXCEPT !.climb_result = Some(climb_result), !.capped = Some(capped)],
        capped, distance_nm, h_low_ft, d)

SamplingClimb(st, climb_result, distance_nm, h_low_ft, d) ==
    SamplingCapped(st, climb_result, CapClimb(climb_result, st.hard_ceiling),
                   distance_nm, h_low_ft, d)

\* one iteration of the cycle loop (lines 668-841)
SamplingCycle(st, distance_nm, h_low_ft, o, d) ==
    IF LoopGuard(st.fuel_remaining, st.distance_covered, distance_nm)
    THEN [st EXCEPT !.exit = "guard"]
    ELSE SamplingClimb(st, climb_segment(st.W_current, h_low_ft, st.climb_ceiling, o),
                       distance_nm, h_low_ft, d)

SamplingFeasible(distance_covered, distance_nm, fuel_remaining) ==
    RGe(distance_covered, RInt(distance_nm))
        /\ RGe(fuel_remaining, RInt(-RESERVE_TOL_LB))

\* Step 8: the (distance, altitude) points of the sawtooth
RECURSIVE ProfilePoints(_, _, _, _)
ProfilePoints(cycles, i, cum_dist, h_low_ft) ==
    IF i > Len(cycles) THEN <<>>
    ELSE LET c == cycles[i]
             top == RAdd(cum_dist, c.climb_distance_nm)
             down == RGt(c.descent_distance_nm, RZero)
             bottom == IF down THEN RAdd(top, c.descent_distance_nm) ELSE top
         IN  <<<<cum_dist, RInt(h_low_ft)>>, <<top, c.ceiling_ft>>>>
             \o (IF down THEN <<<<bottom, RInt(h_low_ft)>>>> ELSE <<>>)
             \o ProfilePoints(cycles, i + 1, bottom, h_low_ft)

RECURSIVE PeakCeiling(_, _)
PeakCeiling(cycles, i) ==
    IF i = Len(cycles) THEN cycles[i].ceiling_ft
    ELSE RMax(cycles[i].ceiling_ft, PeakCeiling(cycles, i + 1))

SamplingResult(a, st, payload_lb, distance_nm, h_low_ft) ==
    LET total_fuel_burned == RSub(st.mission_fuel, st.fuel_remaining)
        feasible == SamplingFeasible(st.distance_covered, distance_nm, st.fuel_remaining)
        n == Len(st.cycles)
    IN  [ feasible |-> feasible,
          infeasible_reason |->
              IF feasible THEN None
              ELSE Some(determine_infeasibility(st.distance_covered, RInt(distance_nm),
                                                st.fuel_remaining)),
          designation |-> a.designation,
          payload_requested_lb |-> payload_lb,
          payload_actual_lb |-> st.actual_payload,
          n_aircraft |-> st.n_aircraft,
          per_aircraft |-> Some(
              [ takeoff_weight_lb |-> st.W_tow,
                oew_lb |-> a.OEW,
                payload_lb |-> st.actual_payload,
                total_fuel_lb |-> st.fuel_available,
                reserve_fuel_lb |-> st.reserve_fuel,
                mission_fuel_lb |-> st.mission_fuel,
                fuel_burned_lb |-> total_fuel_burned,
                fuel_remaining_lb |-> RMax(st.fuel_remaining, RZero),
                distance_covered_nm |-> st.distance_covered,
                total_time_hr |-> st.total_time_hr,
                n_cycles |-> n,
                cycles |-> st.cycles,
                profile_points |-> ProfilePoints(st.cycles, 1, RZero, h_low_ft),
                peak_ceiling_ft |-> IF n > 0 THEN PeakCeiling(st.cycles, 1) ELSE RZero,
                initial_ceiling_ft |-> IF n > 0 THEN st.cycles[1].ceiling_ft ELSE RZero,
                final_ceiling_ft |-> IF n > 0 THEN st.cycles[n].ceiling_ft ELSE RZero ]),
          aggregate |->
              IF st.n_aircraft > 1
              THEN Some([ n_aircraft |-> st.n_aircraft,
                          total_payload_lb |-> RMul(RInt(st.n_aircraft), st.actual_payload),
                          total_fuel_lb |-> RMul(RInt(st.n_aircraft), st.fuel_available),
                          total_fuel_burned_lb |->
                              RMul(RInt(st.n_aircraft), total_fuel_burned) ])
              ELSE None ]

(***************************************************************************)
(* missions.py: _run_endurance.  The fuel flow drag * tsfc that            *)
(* cruise_conditions gives at the fixed altitude and speed depends on the  *)
(* weight alone; f gives it as a step function of the weight: f.light      *)
(* below the weight f.above, f.heavy from there on, rising by f.rise with  *)
(* every further f.band lb of weight.  V_ktas is LOW_ALT_KTAS.             *)
(***************************************************************************)
LOW_ALT_KTAS == 250
FUEL_ITER_MAX == 20
FUEL_ITER_TOL_LB == 50
FUEL_MARGIN_FACTOR == Rat(105, 100)
ENDURANCE_TOL_HR == Rat(1, 100)

FuelFlows ==
    { [light |-> 20,  heavy |-> 40,   above |-> 600,  rise |-> 0,  band |-> 1],
      [light |-> 60,  heavy |-> 60,   above |-> 600,  rise |-> 0,  band |-> 1],
      [light |-> 200, heavy |-> 400,  above |-> 200,  rise |-> 0,  band |-> 1],
      [light |-> 950, heavy |-> 1000, above |-> 4301, rise |-> 50, band |-> 111] }

FuelFlowAt(f, W) ==
    IF RLt(W, RInt(f.above)) THEN f.light
    ELSE f.heavy + f.rise * RFloor(RDiv(RSub(W, RInt(f.above)), RInt(f.band)))

RECURSIVE EnduranceLoop(_, _, _, _, _)
\* a loop without the partial step: a full step is burned even when it costs
\* more than the fuel left
EnduranceLoop_full_steps(st, step_num, n_steps, dt_hr, f) ==
    IF step_num >= n_steps THEN st
    ELSE LET fuel_flow_lbhr == FuelFlowAt(f, st.W_current)
             fuel_this_step == RMul(RInt(fuel_flow_lbhr), dt_hr)
         IN  EnduranceLoop(
               [st EXCEPT
                  !.steps = Append(@,
                      [ step |-> step_num,
                        time_start_hr |-> st.actual_endurance_hr,
                        time_end_hr |-> RAdd(st.actual_endurance_hr, dt_hr),
                        W_start_lb |-> st.W_current,
                        W_end_lb |-> RSub(st.W_current, fuel_this_step),
                        fuel_burned_lb |-> fuel_this_step,
                        distance_nm |-> RMul(RInt(LOW_ALT_KTAS), dt_hr),
                        fuel_flow_lbhr |-> fuel_flow_lbhr ]),
                  !.total_fuel_burned = RAdd(@, fuel_this_step),
                  !.total_distance_nm = RAdd(@, RMul(RInt(LOW_ALT_KTAS), dt_hr)),
                  !.actual_endurance_hr = RAdd(@, dt_hr),
                  !.W_current = RSub(@, fuel_this_step),
                  !.fuel_remaining = RSub(@, fuel_this_step)],
               step_num + 1, n_steps, dt_hr, f)

EnduranceLoop(st, step_num, n_steps, dt_hr, f) ==
    IF step_num >= n_steps THEN st
    ELSE LET fuel_flow_lbhr == FuelFlowAt(f, st.W_current)
             fuel_this_step == RMul(RInt(fuel_flow_lbhr), dt_hr)
         IN  IF RGt(fuel_this_step, st.fuel_remaining)
             THEN LET partial_dt_hr == IF fuel_flow_lbhr > 0
                                       THEN RDiv(st.fuel_remaining, RInt(fuel_flow_lbhr))
                                       ELSE RZero
                      partial_dist_nm == RMul(RInt(LOW_ALT_KTAS), partial_dt_hr)
                  IN  [st EXCEPT
                         !.steps = Append(@,
                             [ step |-> step_num,
                               time_start_hr |-> st.actual_endurance_hr,
                               time_end_hr |-> RAdd(st.actual_endurance_hr, partial_dt_hr),
                               W_start_lb |-> st.W_current,
                               W_end_lb |-> RSub(st.W_current, st.fuel_remaining),
                               fuel_burned_lb |-> st.fuel_remaining,
                               distance_nm |-> partial_dist_nm,
                               fuel_flow_lbhr |-> fuel_flow_lbhr ]),
                         !.total_fuel_burned = RAdd(@, st.fuel_remaining),
                         !.total_distance_nm = RAdd(@, partial_dist_nm),
                         !.actual_endurance_hr = RAdd(@, partial_dt_hr),
                         !.fuel_remaining = RZero]
             ELSE LET dist_this_step == RMul(RInt(LOW_ALT_KTAS), dt_hr)
                  IN  EnduranceLoop(
                        [st EXCEPT
                           !.steps = Append(@,
                               [ step |-> step_num,
                                 time_start_hr |-> st.actual_endurance_hr,
                                 time_end_hr |-> RAdd(st.actual_endurance_hr, dt_hr),
                                 W_start_lb |-> st.W_current,
                                 W_end_lb |-> RSub(st.W_current, fuel_this_step),
                                 fuel_burned_lb |-> fuel_this_step,
                                 distance_nm |-> dist_this_step,
                                 fuel_flow_lbhr |-> fuel_flow_lbhr ]),
                           !.total_fuel_burned = RAdd(@, fuel_this_step),
                           !.total_distance_nm = RAdd(@, dist_this_step),
                           !.actual_endurance_hr = RAdd(@, dt_hr),
                           !.W_current = RSub(@, fuel_this_step),
                           !.fuel_remaining = RSub(@, fuel_this_step)],
                        step_num + 1, n_steps, dt_hr, f)

\* the dictionary that _run_endurance returns from the state of its loop
EnduranceSim(st) ==
    [ fuel_burned_lb |-> st.total_fuel_burned,
      distance_nm |-> st.total_distance_nm,
      endurance_hr |-> st.actual_endurance_hr,
      steps |-> st.steps,
      fuel_remaining_lb |-> RMax(st.fuel_remaining, RZero),
      avg_fuel_flow_lbhr |-> IF RGt(st.actual_endurance_hr, RZero)
                             THEN RDiv(st.total_fuel_burned, st.actual_endurance_hr)
                             ELSE RZero ]

run_endurance(W_tow, mission_fuel, duration_hr, n_steps, f) ==
    EnduranceSim(EnduranceLoop([ W_current |-> W_tow, fuel_remaining |-> mission_fuel,
                                 total_fuel_burned |-> RZero, total_distance_nm |-> RZero,
                                 actual_endurance_hr |-> RZero, steps |-> <<>> ],
                               0, n_steps, Rat(duration_hr, n_steps), f))

(***************************************************************************)
(* missions.py: simulate_mission3_low_altitude.  Steps 1-4 and the initial *)
(* estimate (EnduranceStart), one iteration of the fuel-sizing loop        *)
(* (SizingIteration), the fallback after the loop (SizingFallback) and     *)
(* steps 6-9 (EnduranceResult).                                            *)
(***************************************************************************)
EnduranceStart(a, c, payload_lb, duration_hr, f) ==
    LET fleet == FleetSizing(a, payload_lb)
        max_fuel_available == FuelAvailable(a, fleet.actual_payload)
        W_empty_with_payload == RAdd(RInt(a.OEW), fleet.actual_payload)
        initial_burn_rate == FuelFlowAt(f, W_empty_with_payload)
    IN  [ actual_payload |-> fleet.actual_payload,
          n_aircraft |-> fleet.n_aircraft,
          max_fuel_available |-> max_fuel_available,
          W_empty_with_payload |-> W_empty_with_payload,
          mission_fuel_est |-> RMul(RInt(initial_burn_rate * duration_hr),
                                    FUEL_MARGIN_FACTOR),
          converged |-> FALSE,
          prev_total_fuel |-> RZero,
          iteration |-> 0,
          no_mission_fuel |-> FALSE,
          total_fuel_candidate |-> RZero,
          reserve_fuel |-> RZero,
          mission_fuel_candidate |-> RZero,
          W_tow_candidate |-> RZero,
          sim |-> None ]

EnduranceFeasible(endurance_hr, duration_hr) ==
    RGe(endurance_hr, RSub(RInt(duration_hr), ENDURANCE_TOL_HR))

\* lines 1137-1151: the fuel load that an iteration tries
SizingCandidate(st, fixed_reserves) ==
    LET rough == compute_reserve_fuel(RMul(st.mission_fuel_est, Rat(12, 10)),
                                      fixed_reserves)
        total_fuel_candidate == RMin(RAdd(st.mission_fuel_est, rough),
                                     st.max_fuel_available)
        reserve_fuel == compute_reserve_fuel(total_fuel_candidate, fixed_reserves)
    IN  [st EXCEPT !.total_fuel_candidate = total_fuel_candidate,
                   !.reserve_fuel = reserve_fuel,
                   !.mission_fuel_candidate = RSub(total_fuel_candidate, reserve_fuel)]

\* lines 1165-1199: the convergence test and the next estimate, from the
\* simulation sim of the candidate load at take-off weight W_tow_candidate
SizingSimulated(st, sized, W_tow_candidate, sim, fixed_reserves, duration_hr) ==
    LET actual_burn == sim.fuel_burned_lb
        next_est ==
            IF EnduranceFeasible(sim.endurance_hr, duration_hr)
            THEN RMul(actual_burn, FUEL_MARGIN_FACTOR)
            ELSE IF RGt(actual_burn, RZero) /\ RGt(sim.endurance_hr, RZero)
            THEN RMul(RMul(actual_burn, RDiv(RInt(duration_hr), sim.endurance_hr)),
                      FUEL_MARGIN_FACTOR)
            ELSE RMul(st.mission_fuel_est, RInt(2))
        max_mission_fuel ==
            RSub(st.max_fuel_available,
                 compute_reserve_fuel(st.max_fuel_available, fixed_reserves))
    IN  IF RLt(RAbs(RSub(sized.total_fuel_candidate, st.prev_total_fuel)),
               RInt(FUEL_ITER_TOL_LB))
        THEN [sized EXCEPT !.W_tow_candidate = W_tow_candidate,
                           !.sim = Some(sim),
                           !.converged = TRUE]
        ELSE [sized EXCEPT !.W_tow_candidate = W_tow_candidate,
                           !.sim = Some(sim),
                           !.prev_total_fuel = sized.total_fuel_candidate,
                           !.mission_fuel_est = RMin(next_est, max_mission_fuel),
                           !.iteration = @ + 1]

\* lines 1153-1163: the early return, then the simulation of the candidate
SizingSimulate(st, sized, W_tow_candidate, fixed_reserves, duration_hr, n_steps, f) ==
    IF RLe(sized.mission_fuel_candidate, RZero)
    THEN [sized EXCEPT !.no_mission_fuel = TRUE]
    ELSE SizingSimulated(st, sized, W_tow_candidate,
             run_endurance(W_tow_candidate, sized.mission_fuel_candidate,
                           duration_hr, n_steps, f),
             fixed_reserves, duration_hr)

SizingSized(st, sized, fixed_reserves, duration_hr, n_steps, f) ==
    SizingSimulate(st, sized, RAdd(st.W_empty_with_payload, sized.total_fuel_candidate),
                   fixed_reserves, duration_hr, n_steps, f)

\* one iteration of the fuel-sizing loop (lines 1135-1199)
SizingIteration(st, fixed_reserves, duration_hr, n_steps, f) ==
    SizingSized(st, SizingCandidate(st, fixed_reserves), fixed_reserves,
                duration_hr, n_steps, f)

\* a variant of SizingFallback that keeps the last candidate load
SizingFallback_keep(st, fixed_reserves, duration_hr, n_steps, f) == st

SizingFallback(st, fixed_reserves, duration_hr, n_steps, f) ==
    IF st.converged THEN st
    ELSE LET total_fuel_candidate == st.max_fuel_available
             reserve_fuel == compute_reserve_fuel(total_fuel_candidate, fixed_reserves)
             mission_fuel_candidate == RSub(total_fuel_candidate, reserve_fuel)
             W_tow_candidate == RAdd(st.W_empty_with_payload, total_fuel_candidate)
         IN  [st EXCEPT !.total_fuel_candidate = total_fuel_candidate,
                        !.reserve_fuel = reserve_fuel,
                        !.mission_fuel_candidate = mission_fuel_candidate,
                        !.W_tow_candidate = W_tow_candidate,
                        !.sim = Some(run_endurance(W_tow_candidate,
                                         mission_fuel_candidate, duration_hr,
                                         n_steps, f))]

\* The reason text is modelled by its fixed leading words; the two formatted
\* durations that follow them are left out.
EnduranceResult(a, st, payload_lb, duration_hr) ==
    LET sim == st.sim.value
        feasible == EnduranceFeasible(sim.endurance_hr, duration_hr)
    IN  [ feasible |-> feasible,
          infeasible_reason |-> IF feasible THEN None ELSE Some(REASON_ENDURANCE),
          designation |-> a.designation,
          payload_requested_lb |-> payload_lb,
          payload_actual_lb |-> st.actual_payload,
          n_aircraft |-> st.n_aircraft,
          per_aircraft |-> Some(
              [ takeoff_weight_lb |-> st.W_tow_candidate,
                oew_lb |-> a.OEW,
                payload_lb |-> st.actual_payload,
                total_fuel_lb |-> st.total_fuel_candidate,
                reserve_fuel_lb |-> st.reserve_fuel,
                mission_fuel_lb |-> st.mission_fuel_candidate,
                fuel_burned_lb |-> sim.fuel_burned_lb,
                fuel_remaining_lb |-> sim.fuel_remaining_lb,
                endurance_hr |-> sim.endurance_hr,
                distance_covered_nm |-> sim.distance_nm,
                V_ktas |-> LOW_ALT_KTAS,
                avg_fuel_flow_lbhr |-> sim.avg_fuel_flow_lbhr,
                steps |-> sim.steps,
                max_fuel_available_lb |-> st.max_fuel_available,
                fuel_sizing_converged |-> st.converged ]),
          aggregate |->
              IF st.n_aircraft > 1
              THEN Some([ n_aircraft |-> st.n_aircraft,
                          total_payload_lb |-> RMul(RInt(st.n_aircraft), st.actual_payload),
                          total_fuel_lb |->
                              RMul(RInt(st.n_aircraft), st.total_fuel_candidate),
                          total_fuel_burned_lb |->
                              RMul(RInt(st.n_aircraft), sim.fuel_burned_lb) ])
              ELSE None ]

\* the fuel-sizing loop, run to its end
RECURSIVE SizingLoop(_, _, _, _, _)
SizingLoop(st, fixed_reserves, duration_hr, n_steps, f) ==
    IF st.converged \/ st.no_mission_fuel \/ st.iteration >= FUEL_ITER_MAX THEN st
    ELSE SizingLoop(SizingIteration(st, fixed_reserves, duration_hr, n_steps, f),
                    fixed_reserves, duration_hr, n_steps, f)

\* the return of simulate_mission3_low_altitude after its loop
Mission3Looped(a, payload_lb, duration_hr, n_steps, fixed_reserves, f, st) ==
    IF st.no_mission_fuel
    THEN infeasible_result(a, payload_lb, st.actual_payload, st.n_aircraft,
                           REASON_NO_MISSION_FUEL)
    ELSE EnduranceResult(a, SizingFallback(st, fixed_reserves, duration_hr, n_steps, f),
                         payload_lb, duration_hr)

Mission3Started(a, payload_lb, duration_hr, n_steps, fixed_reserves, f, st) ==
    IF RLe(st.max_fuel_available, RZero)
    THEN infeasible_result(a, payload_lb, st.actual_payload, st.n_aircraft,
                           REASON_PAYLOAD)
    ELSE Mission3Looped(a, payload_lb, duration_hr, n_steps, fixed_reserves, f,
             SizingLoop(st, fixed_reserves, duration_hr, n_steps, f))

\* simulate_mission3_low_altitude as one function of its arguments
simulate_mission3_low_altitude(a, c, payload_lb, duration_hr, n_steps, fixed_reserves, f) ==
    Mission3Started(a, payload_lb, duration_hr, n_steps, fixed_reserves, f,
                    EnduranceStart(a, c, payload_lb, duration_hr, f))

(***************************************************************************)
(* The calls.                                                              *)
(***************************************************************************)
Mission1Requests ==
    [ mission : {1}, payload_lb : Payloads, distance_nm : Distances,
      failure_point_nm : FailurePoints, n_steps_per_segment : {NStepsPerSegment} ]

Mission2Requests ==
    [ mission : {2}, payload_lb : Payloads, distance_nm : SamplingDistances,
      h_low_ft : {H_LOW_FT}, max_cycles : {MaxCycles} ]

Mission3Requests ==
    [ mission : {3}, payload_lb : Payloads, duration_hr : Durations,
      n_steps : {1, EnduranceSteps} ]

Environments == [ fixed_reserves : FixedReserves, fuel_flow : FuelFlows ]

\* a simulator that stores the payload share of one aircraft in its argument
AircraftAfter_stored(a) == [a EXCEPT !.max_payload = 0]

\* the aircraft dict and the calibration dict after a step of a simulator:
\* every statement that names them reads a key
AircraftAfter(a) == a

CalibrationAfter(c) == c

Init ==
    /\ phase = "idle"
    /\ ac \in Aircraft
    /\ cal \in Calibrations
    /\ env \in Environments
    /\ req \in Mission1Requests \cup Mission2Requests \cup Mission3Requests
    \* a simulator is called with the part of the physics that it reads
    /\ req.mission = 1 => env = CHOOSE v \in Environments : TRUE
    /\ req.mission = 2 => env.fuel_flow = CHOOSE f \in FuelFlows : TRUE
    \* the long-range aircraft flies its endurance mission in one step
    /\ (req.mission = 3 /\ ac.designation = "LONG") => req.n_steps = 1
    /\ m2 = None
    /\ m3 = None
    /\ sweep = None
    /\ cruise = None
    /\ fit = None
    /\ loc = None
    /\ result = None

CallMission1 ==
    /\ phase = "idle"
    /\ req.mission = 1
    /\ \E srs1 \in [1..(2 * req.n_steps_per_segment) -> SpecificRanges],
          srs2 \in [1..req.n_steps_per_segment -> SpecificRanges] :
            result' = simulate_mission1_engine_out(ac, cal, req.payload_lb,
                          req.distance_nm, req.failure_point_nm,
                          req.n_steps_per_segment, srs1, srs2)
    /\ phase' = IF "exception" \in DOMAIN result' THEN "raised" ELSE "returned"
    /\ ac' = AircraftAfter(ac)
    /\ cal' = CalibrationAfter(cal)
    /\ UNCHANGED <<req, env, m2, m3, sweep, cruise, fit, loc>>

\* simulate_mission2_sampling up to the cycle loop
CallMission2 ==
    /\ phase = "idle"
    /\ req.mission = 2
    /\ \E st \in {SamplingStart(ac, cal, env.fixed_reserves, req.payload_lb)} :
           IF RLe(st.fuel_available, RZero)
           THEN /\ result' = infeasible_result(ac, req.payload_lb, st.actual_payload,
                                               st.n_aircraft, REASON_PAYLOAD)
                /\ phase' = "returned"
                /\ m2' = m2
           ELSE IF RLe(st.mission_fuel, RZero)
           THEN /\ result' = infeasible_result(ac, req.payload_lb, st.actual_payload,
                                               st.n_aircraft, REASON_NO_MISSION_FUEL)
                /\ phase' = "returned"
                /\ m2' = m2
           ELSE /\ m2' = st
                /\ phase' = "m2_loop"
                /\ result' = result
    /\ ac' = AircraftAfter(ac)
    /\ cal' = CalibrationAfter(cal)
    /\ UNCHANGED <<req, env, m3, sweep, cruise, fit, loc>>

\* one iteration of "for cycle_num in range(1, max_cycles + 1)"
Mission2Cycle ==
    /\ phase = "m2_loop"
    /\ m2.exit = "running"
    /\ m2.cycle_num <= req.max_cycles
    /\ \E o \in ClimbOracles, d \in DescentOracles :
          m2' = SamplingCycle(m2, req.distance_nm, req.h_low_ft, o, d)
    /\ ac' = AircraftAfter(ac)
    /\ cal' = CalibrationAfter(cal)
    /\ UNCHANGED <<phase, req, env, m3, sweep, cruise, result, fit, loc>>

\* the loop has ended (a break, or the range is exhausted): steps 6-10
Mission2Return ==
    /\ phase = "m2_loop"
    /\ m2.exit # "running" \/ m2.cycle_num > req.max_cycles
    /\ result' = SamplingResult(ac, m2, req.payload_lb, req.distance_nm, req.h_low_ft)
    /\ m2' = IF m2.exit = "running" THEN [m2 EXCEPT !.exit = "max_cycles"] ELSE m2
    /\ phase' = "returned"
    /\ ac' = AircraftAfter(ac)
    /\ cal' = CalibrationAfter(cal)
    /\ UNCHANGED <<req, env, m3, sweep, cruise, fit, loc>>

\* simulate_mission3_low_altitude up to the fuel-sizing loop
CallMission3 ==
    /\ phase = "idle"
    /\ req.mission = 3
    /\ \E st \in {EnduranceStart(ac, cal, req.payload_lb, req.duration_hr, env.fuel_flow)} :
           IF RLe(st.max_fuel_available, RZero)
           THEN /\ result' = infeasible_result(ac, req.payload_lb, st.actual_payload,
                                               st.n_aircraft, REASON_PAYLOAD)
                /\ phase' = "returned"
                /\ m3' = m3
           ELSE /\ m3' = st
                /\ phase' = "m3_loop"
                /\ result' = result
    /\ ac' = AircraftAfter(ac)
    /\ cal' = CalibrationAfter(cal)
    /\ UNCHANGED <<req, env, m2, sweep, cruise, fit, loc>>

\* one iteration of "for iteration in range(_FUEL_ITER_MAX)"
Mission3Iterate ==
    /\ phase = "m3_loop"
    /\ ~m3.converged
    /\ m3.iteration < FUEL_ITER_MAX
    /\ \E st \in {SizingIteration(m3, env.fixed_reserves, req.duration_hr,
                                  req.n_steps, env.fuel_flow)} :
           /\ m3' = st
           /\ IF st.no_mission_fuel
              THEN /\ result' = infeasible_result(ac, req.payload_lb, st.actual_payload,
                                      st.n_aircraft, REASON_NO_MISSION_FUEL)
                   /\ phase' = "returned"
              ELSE UNCHANGED <<phase, result>>
    /\ ac' = AircraftAfter(ac)
    /\ cal' = CalibrationAfter(cal)
    /\ UNCHANGED <<req, env, m2, sweep, cruise, fit, loc>>

\* the loop has ended (converged, or the range is exhausted): the fallback
\* and steps 6-9
Mission3Return ==
    /\ phase = "m3_loop"
    /\ m3.converged \/ m3.iteration >= FUEL_ITER_MAX
    /\ \E st \in {SizingFallback(m3, env.fixed_reserves, req.duration_hr,
                                 req.n_steps, env.fuel_flow)} :
           /\ m3' = st
           /\ result' = EnduranceResult(ac, st, req.payload_lb, req.duration_hr)
    /\ phase' = "returned"
    /\ ac' = AircraftAfter(ac)
    /\ cal' = CalibrationAfter(cal)
    /\ UNCHANGED <<req, env, m2, sweep, cruise, fit, loc>>

Next ==
    \/ CallMission1
    \/ CallMission2
    \/ Mission2Cycle
    \/ Mission2Return
    \/ CallMission3
    \/ Mission3Iterate
    \/ Mission3Return

Spec == Init /\ [][Next]_vars

(***************************************************************************)
(* performance.py: optimal_cruise_altitude.  At a fixed Mach number the    *)
(* dynamic pressure falls with altitude, so CL = W / (q * S) rises with    *)
(* it; QS gives q * S on the altitude grid.  The thrust available, the     *)
(* drag and the specific range at a candidate are read from the physics    *)
(* when the sweep reaches it.                                              *)
(***************************************************************************)
ALT_H_MIN == 25000
ALT_H_STEP == 500
CL_MAX_CRUISE == Rat(60, 100)

\* number of grid altitudes from ALT_H_MIN that a ceiling can admit
AltPoints == 4

QS(h) == (31000 - h) \div 500

lift_coefficient(weight_lb, h) == Rat(weight_lb, QS(h))

Weights == {3, 6, 7, 8}
ThrustLevels == {1, 2}
DragLevels == {2}
DragMultipliers == { RInt(1), Rat(11, 10) }
SweepSpecificRanges == {1, 2}

SweepRequests ==
    [ weight_lb : Weights,
      h_min : {ALT_H_MIN, ALT_H_MIN + ALT_H_STEP},
      h_step : {ALT_H_STEP},
      ceiling_ft : {ALT_H_MIN - ALT_H_STEP, ALT_H_MIN + (AltPoints - 1) * ALT_H_STEP},
      engine_data : BOOLEAN,
      drag_multiplier : DragMultipliers,
      CL_max_cruise : {CL_MAX_CRUISE} ]

SweepStart(rq) ==
    [ best_alt |-> rq.h_min, best_sr |-> 0, h |-> rq.h_min,
      broke |-> FALSE, trace |-> <<>>, returned |-> None ]

\* one iteration of "while h <= ceiling_ft"
SweepIteration(st, rq, thrust_avail, drag_lbf, SR_nm_per_lb) ==
    LET CL == lift_coefficient(rq.weight_lb, st.h)
        seen(outcome) == Append(st.trace,
            [ h |-> st.h, CL |-> CL, thrust_avail |-> thrust_avail,
              drag_lbf |-> drag_lbf, SR_nm_per_lb |-> SR_nm_per_lb,
              outcome |-> outcome ])
    IN  IF RGt(CL, rq.CL_max_cruise)
        THEN [st EXCEPT !.broke = TRUE, !.trace = seen("break")]
        ELSE IF rq.engine_data
                /\ RLt(RInt(thrust_avail), RMul(RInt(drag_lbf), rq.drag_multiplier))
        THEN [st EXCEPT !.h = @ + rq.h_step, !.trace = seen("skip")]
        ELSE IF SR_nm_per_lb > st.best_sr
        THEN [st EXCEPT !.best_sr = SR_nm_per_lb, !.best_alt = st.h,
                        !.h = @ + rq.h_step, !.trace = seen("best")]
        ELSE [st EXCEPT !.h = @ + rq.h_step, !.trace = seen("pass")]

InitAlt ==
    /\ phase = "sweep"
    /\ req \in SweepRequests
    /\ sweep = SweepStart(req)
    /\ ac = None
    /\ cal = None
    /\ env = None
    /\ m2 = None
    /\ m3 = None
    /\ cruise = None
    /\ fit = None
    /\ loc = None
    /\ result = None

SweepStep ==
    /\ phase = "sweep"
    /\ ~sweep.broke
    /\ sweep.h <= req.ceiling_ft
    /\ \E thrust_avail \in ThrustLevels, drag_lbf \in DragLevels,
          SR_nm_per_lb \in SweepSpecificRanges :
            sweep' = SweepIteration(sweep, req, thrust_avail, drag_lbf, SR_nm_per_lb)
    /\ UNCHANGED <<phase, ac, cal, req, env, m2, m3, cruise, result, fit, loc>>

\* "return best_alt", after the break or when h has passed the ceiling
SweepReturn ==
    /\ phase = "sweep"
    /\ sweep.broke \/ sweep.h > req.ceiling_ft
    /\ sweep' = [sweep EXCEPT !.returned = Some(sweep.best_alt)]
    /\ phase' = "returned"
    /\ UNCHANGED <<ac, cal, req, env, m2, m3, cruise, result, fit, loc>>

NextAlt ==
    \/ SweepStep
    \/ SweepReturn

SpecAlt == InitAlt /\ [][NextAlt]_vars

(***************************************************************************)
(* performance.py: step_cruise_range, one loop iteration at a time.        *)
(***************************************************************************)
CruiseStepsMax == 3

CruiseRequests ==
    [ W_initial_lb : {90, 300, 1000},
      fuel_available_lb : {0, 100, 150, 250},
      n_steps : 1..CruiseStepsMax ]

InitCruise ==
    /\ phase = "cruise"
    /\ req \in CruiseRequests
    /\ cruise = [ fuel_per_step |-> Rat(req.fuel_available_lb, req.n_steps),
                  i |-> 0,
                  st |-> CruiseStart(RInt(req.W_initial_lb)),
                  returned |-> None ]
    /\ ac = None
    /\ cal = None
    /\ env = None
    /\ m2 = None
    /\ m3 = None
    /\ sweep = None
    /\ fit = None
    /\ loc = None
    /\ result = None

\* one iteration of "for i in range(n_steps)"
CruiseIterate ==
    /\ phase = "cruise"
    /\ cruise.i < req.n_steps
    /\ ~cruise.st.broke
    /\ ~cruise.st.raised
    /\ \E sr \in SpecificRanges :
          cruise' = [cruise EXCEPT
                       !.st = CruiseStep(cruise.st, cruise.i, cruise.fuel_per_step, sr),
                       !.i = @ + 1]
    /\ UNCHANGED <<phase, ac, cal, req, env, m2, m3, sweep, result, fit, loc>>

\* the return statement of step_cruise_range
CruiseReturn ==
    /\ phase = "cruise"
    /\ cruise.i >= req.n_steps \/ cruise.st.broke \/ cruise.st.raised
    /\ cruise' = [cruise EXCEPT
                    !.returned = Some([ range_nm |-> cruise.st.total_range,
                                        fuel_burned_lb |-> cruise.st.total_fuel,
                                        segments |-> cruise.st.segments ])]
    /\ phase' = IF cruise.st.raised THEN "raised" ELSE "returned"
    /\ UNCHANGED <<ac, cal, req, env, m2, m3, sweep, result, fit, loc>>

NextCruise ==
    \/ CruiseIterate
    \/ CruiseReturn

SpecCruise == InitCruise /\ [][NextCruise]_vars

(***************************************************************************)
(* missions.py: the fuel bookkeeping of simulate_mission1_engine_out in    *)
(* floating-point arithmetic.  A Python float is a binary floating-point   *)
(* number whose operations round to the nearest representable value, ties  *)
(* to even.  Here a weight is an integer number of 1/1024 lb and keeps     *)
(* SIGNIFICAND_BITS significant bits (binary64 keeps 53).  The ranges come *)
(* from the physics: env.split is the step of segment 1 at which the        *)
(* failure point is crossed and the fraction of it (in quarters), or None  *)
(* when the fuel runs out first; env.total_range is the total range.       *)
(***************************************************************************)
SIGNIFICAND_BITS == 12
LB == 1024

RECURSIVE FloatExponent(_, _, _)
FloatExponent(num, den, e) ==
    IF num < den * 2^(SIGNIFICAND_BITS + e) THEN e ELSE FloatExponent(num, den, e + 1)

\* the float nearest to num / den, for num >= 0 and den > 0
FloatDiv(num, den) ==
    LET s == den * 2^FloatExponent(num, den, 0)
        q == num \div s
        r == num % s
    IN  IF 2 * r > s \/ (2 * r = s /\ q % 2 = 1) THEN (q + 1) * (s \div den)
        ELSE q * (s \div den)

\* the float nearest to a + b and to a - b
FloatAdd(a, b) == FloatDiv(a + b, 1)
FloatSub(a, b) == IF a >= b THEN FloatDiv(a - b, 1) ELSE -FloatDiv(b - a, 1)

\* _find_fuel_at_distance on the segments of segment 1: the fuel burned up
\* to the crossing step plus the fraction frac = k / 4 of that step's fuel,
\* or all the fuel burned when the target is not reached
FuelAtFailure(segments, split) ==
    IF split = None THEN segments[Len(segments)].cumulative_fuel_lb
    ELSE LET s == segments[split[1]]
             prev_cum_fuel == IF split[1] > 1
                              THEN segments[split[1] - 1].cumulative_fuel_lb ELSE 0
             step_fuel == FloatSub(s.W_start_lb, s.W_end_lb)
             interpolated_fuel == FloatDiv(step_fuel * split[2], 4)
         IN  FloatAdd(prev_cum_fuel, interpolated_fuel)

FloatFuels == { 1000 * LB, 2046 * LB, 3000 * LB }
FloatSteps == { 1, 3, 5 }
FloatRequests ==
    [ fn : { "simulate_mission1_engine_out" }, W_tow : { 4000 * LB },
      cruise_fuel : FloatFuels, n_steps_per_segment : FloatSteps, distance_nm : { 600 } ]

FloatPhysics(rq) ==
    [ split : { None } \cup ((1..(2 * rq.n_steps_per_segment)) \X { 0, 1, 2, 4 }),
      total_range : { 400, 800 } ]

InitFloat ==
    /\ phase = "idle"
    /\ req \in FloatRequests
    /\ env \in FloatPhysics(req)
    /\ ac = None
    /\ cal = None
    /\ m2 = None
    /\ m3 = None
    /\ sweep = None
    /\ cruise = None
    /\ fit = None
    /\ loc = None
    /\ result = None

\* step 4: segment 1 is run with all the cruise fuel in 2 n steps
StartSegment1 ==
    /\ phase = "idle"
    /\ loc' = [ fuel_per_step |-> FloatDiv(req.cruise_fuel, 2 * req.n_steps_per_segment),
                total_fuel |-> 0, W_current |-> req.W_tow, segments |-> <<>> ]
    /\ phase' = "segment1"
    /\ UNCHANGED <<ac, cal, req, env, m2, m3, sweep, cruise, fit, result>>

\* one step of step_cruise_range for segment 1
Segment1Step ==
    /\ phase = "segment1"
    /\ Len(loc.segments) < 2 * req.n_steps_per_segment
    /\ LET W_end == FloatSub(loc.W_current, loc.fuel_per_step)
           total_fuel == FloatAdd(loc.total_fuel, loc.fuel_per_step)
       IN  loc' = [loc EXCEPT !.total_fuel = total_fuel,
                              !.W_current = W_end,
                              !.segments = Append(@, [ W_start_lb |-> loc.W_current,
                                                       W_end_lb |-> W_end,
                                                       cumulative_fuel_lb |-> total_fuel ])]
    /\ UNCHANGED <<phase, ac, cal, req, env, m2, m3, sweep, cruise, fit, result>>

\* steps 4-6: the fuel burned up to the failure point, the cruise fuel left,
\* and the start of segment 2 when some is left
FailurePoint ==
    /\ phase = "segment1"
    /\ Len(loc.segments) = 2 * req.n_steps_per_segment
    /\ LET seg1_fuel_burned == FuelAtFailure(loc.segments, env.split)
           remaining_cruise_fuel == FloatSub(req.cruise_fuel, seg1_fuel_burned)
       IN  IF remaining_cruise_fuel > 0
           THEN /\ loc' = [ seg1_fuel_burned |-> seg1_fuel_burned,
                            remaining_cruise_fuel |-> remaining_cruise_fuel,
                            fuel_per_step |-> FloatDiv(remaining_cruise_fuel,
                                                       req.n_steps_per_segment),
                            total_fuel |-> 0, steps |-> 0 ]
                /\ phase' = "segment2"
           ELSE /\ loc' = [ seg1_fuel_burned |-> seg1_fuel_burned,
                            remaining_cruise_fuel |-> remaining_cruise_fuel,
                            fuel_per_step |-> 0, total_fuel |-> 0, steps |-> 0 ]
                /\ phase' = "verdict"
    /\ UNCHANGED <<ac, cal, req, env, m2, m3, sweep, cruise, fit, result>>

\* one step of step_cruise_range for segment 2
Segment2Step ==
    /\ phase = "segment2"
    /\ loc.steps < req.n_steps_per_segment
    /\ loc' = [loc EXCEPT !.total_fuel = FloatAdd(@, loc.fuel_per_step),
                          !.steps = @ + 1]
    /\ UNCHANGED <<phase, ac, cal, req, env, m2, m3, sweep, cruise, fit, result>>

Segment2Return ==
    /\ phase = "segment2"
    /\ loc.steps = req.n_steps_per_segment
    /\ phase' = "verdict"
    /\ UNCHANGED <<ac, cal, req, env, m2, m3, sweep, cruise, fit, loc, result>>

\* step 7: the reserve left, the verdict and its reason
FloatVerdict ==
    /\ phase = "verdict"
    /\ LET total_fuel_burned == FloatAdd(loc.seg1_fuel_burned, loc.total_fuel)
           reserve_remaining == FloatSub(req.cruise_fuel, total_fuel_burned)
           feasible == Mission1Feasible(RInt(env.total_range), req.distance_nm,
                                        Rat(reserve_remaining, LB))
       IN  result' = [ feasible |-> feasible,
                       infeasible_reason |->
                           IF feasible THEN None
                           ELSE Some(determine_infeasibility(RInt(env.total_range),
                                         RInt(req.distance_nm),
                                         Rat(reserve_remaining, LB))),
                       cruise_fuel_lb |-> req.cruise_fuel,
                       seg1_fuel_burned |-> loc.seg1_fuel_burned,
                       seg2_fuel_burned |-> loc.total_fuel,
                       total_fuel_burned |-> total_fuel_burned,
                       reserve_remaining |-> reserve_remaining ]
    /\ phase' = "returned"
    /\ UNCHANGED <<ac, cal, req, env, m2, m3, sweep, cruise, fit, loc>>

NextFloat ==
    \/ StartSegment1
    \/ Segment1Step
    \/ FailurePoint
    \/ Segment2Step
    \/ Segment2Return
    \/ FloatVerdict

SpecFloat == InitFloat /\ [][NextFloat]_vars

(***************************************************************************)
(* performance.py: breguet_range_nm called on its own, with weights of     *)
(* either sign and a factor (V / c) * (L/D) of either sign.                *)
(***************************************************************************)
BreguetFactors == { Rat(-1, 4), RZero, Rat(1, 4), Rat(1, 2) }
BreguetInitialWeights == { -100, 0, 100, 200, 300 }
BreguetFinalWeights == { -100, 0, 50, 100, 150, 200, 300 }

BreguetRequests ==
    [ sr : BreguetFactors,
      W_initial_lb : BreguetInitialWeights,
      W_final_lb : BreguetFinalWeights ]

InitBreguet ==
    /\ phase = "idle"
    /\ req \in BreguetRequests
    /\ ac = None
    /\ cal = None
    /\ env = None
    /\ m2 = None
    /\ m3 = None
    /\ sweep = None
    /\ cruise = None
    /\ fit = None
    /\ loc = None
    /\ result = None

\* a call of breguet_range_nm
CallBreguet ==
    /\ phase = "idle"
    /\ \E R \in { breguet_range_nm(req.sr, RInt(req.W_initial_lb), RInt(req.W_final_lb)) } :
          /\ result' = R
          /\ phase' = IF R = ValueError THEN "raised" ELSE "returned"
    /\ UNCHANGED <<ac, cal, req, env, m2, m3, sweep, cruise, fit, loc>>

NextBreguet == CallBreguet

SpecBreguet == InitBreguet /\ [][NextBreguet]_vars

(***************************************************************************)
(* The helper functions called on their own (specification SpecCalls): a   *)
(* request names the function and carries its arguments.                   *)
(***************************************************************************)
\* compute_reserve_fuel: the fuel loaded, and what the alternate and hold legs
\* evaluate to, of either sign and far above the fuel loaded
ReserveRequests ==
    [ fn : { "compute_reserve_fuel" },
      total_fuel_lb : { 0, 1, 100, 1000, 2046, 5000, 20000, 100000 },
      fixed_reserves : { Rat(-50, 1), RZero, Rat(1, 2), Rat(195, 2), RInt(950),
                         RInt(1000), RInt(100000) } ]

\* propulsion.py: max_altitude_for_thrust.  An altitude of the bisection is a
\* whole number of units of 55000 / 2^50 ft, written <<hi, lo>> for
\* hi * 2^25 + lo, so that the fifty midpoints are computed exactly.
LIMB == 33554432
BISECTION_STEPS == 50

WAdd(a, b) == << a[1] + b[1] + ((a[2] + b[2]) \div LIMB), (a[2] + b[2]) % LIMB >>
WHalf(a) == << a[1] \div 2, (a[2] + (a[1] % 2) * LIMB) \div 2 >>
WLe(a, b) == a[1] < b[1] \/ (a[1] = b[1] /\ a[2] <= b[2])
WLt(a, b) == a[1] < b[1] \/ (a[1] = b[1] /\ a[2] < b[2])

H_GROUND == << 0, 0 >>
\* h_high = 55_000
H_HIGH_LIMIT == << LIMB, 0 >>

\* where thrust_available_cruise is at least the required thrust: up to a
\* ceiling (below the ground when even sea level is infeasible), and for a
\* thrust that is not monotone in altitude in a band above it as well
ThrustOracles ==
    [ ceiling : { << -1, 0 >>, H_GROUND, << 1, 0 >>, << 11184810, 22369621 >>,
                  << LIMB - 1, LIMB - 1 >>, H_HIGH_LIMIT, << 2 * LIMB, 0 >> },
      band : { << >> } ]
    \cup [ ceiling : { H_GROUND, << 11184810, 22369621 >> },
           band : { << << 16777216, 0 >>, << 25165824, 5 >> >> } ]

\* thrust_available_cruise(thrust_slst_lbf, h, n_engines) >= required_thrust_lbf
ThrustSuffices(o, h) ==
    \/ WLe(h, o.ceiling)
    \/ o.band # << >> /\ WLe(o.band[1], h) /\ WLe(h, o.band[2])

MaxAltitudeRequests == [ fn : { "max_altitude_for_thrust" } ]

\* a bisection that moves the wrong end
BisectionStep_swapped(st, o) ==
    IF ThrustSuffices(o, WHalf(WAdd(st.h_low, st.h_high)))
    THEN [st EXCEPT !.h_high = WHalf(WAdd(st.h_low, st.h_high)), !.steps = @ + 1]
    ELSE [st EXCEPT !.h_low = WHalf(WAdd(st.h_low, st.h_high)), !.steps = @ + 1]

\* one iteration of the bisection loop
BisectionStep(st, o) ==
    IF ThrustSuffices(o, WHalf(WAdd(st.h_low, st.h_high)))
    THEN [st EXCEPT !.h_low = WHalf(WAdd(st.h_low, st.h_high)), !.steps = @ + 1]
    ELSE [st EXCEPT !.h_high = WHalf(WAdd(st.h_low, st.h_high)), !.steps = @ + 1]

\* atmosphere.py: temperature and speed_of_sound.  An altitude is a whole
\* number of units of 0.04 ft and a temperature a whole number of units of
\* 0.00000008 degrees Rankine, written <<hi, lo>> for hi * 2^25 + lo, so that
\* T0 + LAPSE_RATE * h is computed exactly.
H_TROPOPAUSE == 902231
H_STRATO2 == 1640420
LAPSE_RATE == -1783
\* T0 = 518.67 degrees Rankine = 6483375000 units
T0 == << 193, 7369624 >>

WFromInt(x) == << x \div LIMB, x % LIMB >>

\* a temperature that follows the standard atmosphere into its third layer
temperature_three_layers(h_ft) ==
    IF h_ft <= H_TROPOPAUSE THEN WAdd(T0, WFromInt(LAPSE_RATE * h_ft))
    ELSE IF h_ft <= H_STRATO2 THEN WAdd(T0, WFromInt(LAPSE_RATE * H_TROPOPAUSE))
    ELSE WAdd(WAdd(T0, WFromInt(LAPSE_RATE * H_TROPOPAUSE)),
              WFromInt(274 * (h_ft - H_STRATO2)))

temperature(h_ft) ==
    IF h_ft <= H_TROPOPAUSE THEN WAdd(T0, WFromInt(LAPSE_RATE * h_ft))
    ELSE IF h_ft <= H_STRATO2 THEN WAdd(T0, WFromInt(LAPSE_RATE * H_TROPOPAUSE))
    ELSE WAdd(T0, WFromInt(LAPSE_RATE * H_TROPOPAUSE))

\* a temperature in hundredths of a degree, rounded down: 0.01 degrees are
\* 125000 units, and 2^25 = 268 * 125000 + 54432
Hundredths(T) == T[1] * 268 + ((T[1] * 54432 + T[2]) \div 125000)

\* math.sqrt(GAMMA * R * T) with GAMMA * R = 2403.086, in tenths of a ft/s,
\* rounded down, from the temperature in hundredths of a degree
SoundSpeed(T) ==
    IntegerRoot(Hundredths(T) * 2403 + ((Hundredths(T) * 86) \div 1000), 0, 40000)

speed_of_sound(h_ft) == SoundSpeed(temperature(h_ft))

\* -1000 ft, sea level, 10,000 ft, around the tropopause, 45,000 ft, around
\* the top of the lower stratosphere, 70,000 ft and 100,000 ft
AltitudeSamples ==
    { -25000, 0, 1, 250000, H_TROPOPAUSE - 1, H_TROPOPAUSE, H_TROPOPAUSE + 1, 1125000,
      H_STRATO2, H_STRATO2 + 1, 1750000, 2500000 }

AtmosphereRequests == [ fn : { "temperature", "speed_of_sound" }, h_ft : AltitudeSamples ]

\* climbs from below, at and above the target, with whole and partial last
\* steps
ClimbStarts == { 5000, 5500, 7000 }
ClimbTargets == { 5000, 6500, 7000, 7300 }
ClimbRequests ==
    [ fn : { "climb_segment" }, W_start_lb : { 200000 },
      h_start_ft : ClimbStarts, h_target_ft : ClimbTargets ]

\* descents from above, at and below the target
DescentRequests ==
    [ fn : { "descend_segment" }, h_start_ft : { 5000, 7000, 41000 },
      h_target_ft : { 5000, 7000, 10000 } ]

CallRequests ==
    ReserveRequests \cup MaxAltitudeRequests \cup AtmosphereRequests
        \cup ClimbRequests \cup DescentRequests

\* the physics that a helper is called with
CallPhysics(rq) ==
    IF rq.fn = "max_altitude_for_thrust" THEN ThrustOracles
    ELSE IF rq.fn = "climb_segment" THEN ClimbOracles
    ELSE IF rq.fn = "descend_segment" THEN DescentOracles
    ELSE { None }

InitCalls ==
    /\ phase = "idle"
    /\ req \in CallRequests
    /\ env \in CallPhysics(req)
    /\ ac = None
    /\ cal = None
    /\ m2 = None
    /\ m3 = None
    /\ sweep = None
    /\ cruise = None
    /\ fit = None
    /\ loc = None
    /\ result = None

\* a call of compute_reserve_fuel
CallReserveFuel ==
    /\ phase = "idle"
    /\ req.fn = "compute_reserve_fuel"
    /\ result' = compute_reserve_fuel(RInt(req.total_fuel_lb), req.fixed_reserves)
    /\ phase' = "returned"
    /\ UNCHANGED <<ac, cal, req, env, m2, m3, sweep, cruise, fit, loc>>

\* max_altitude_for_thrust up to its bisection loop
CallMaxAltitude ==
    /\ phase = "idle"
    /\ req.fn = "max_altitude_for_thrust"
    /\ loc' = [ h_low |-> H_GROUND, h_high |-> H_HIGH_LIMIT, steps |-> 0 ]
    /\ IF ~ThrustSuffices(env, H_GROUND)
       THEN /\ result' = H_GROUND
            /\ phase' = "returned"
       ELSE /\ result' = result
            /\ phase' = "bisection"
    /\ UNCHANGED <<ac, cal, req, env, m2, m3, sweep, cruise, fit>>

\* one iteration of "for _ in range(50)"
BisectionIterate ==
    /\ phase = "bisection"
    /\ loc.steps < BISECTION_STEPS
    /\ loc' = BisectionStep(loc, env)
    /\ UNCHANGED <<phase, ac, cal, req, env, m2, m3, sweep, cruise, fit, result>>

\* "return h_low"
BisectionReturn ==
    /\ phase = "bisection"
    /\ loc.steps >= BISECTION_STEPS
    /\ result' = loc.h_low
    /\ phase' = "returned"
    /\ UNCHANGED <<ac, cal, req, env, m2, m3, sweep, cruise, fit, loc>>

\* a call of atmosphere.temperature
CallTemperature ==
    /\ phase = "idle"
    /\ req.fn = "temperature"
    /\ result' = temperature(req.h_ft)
    /\ phase' = "returned"
    /\ UNCHANGED <<ac, cal, req, env, m2, m3, sweep, cruise, fit, loc>>

\* a call of atmosphere.speed_of_sound
CallSpeedOfSound ==
    /\ phase = "idle"
    /\ req.fn = "speed_of_sound"
    /\ result' = speed_of_sound(req.h_ft)
    /\ phase' = "returned"
    /\ UNCHANGED <<ac, cal, req, env, m2, m3, sweep, cruise, fit, loc>>

\* a call of climb_segment with the default h_step_ft and roc_min_fpm
CallClimb ==
    /\ phase = "idle"
    /\ req.fn = "climb_segment"
    /\ result' = climb_segment(RInt(req.W_start_lb), req.h_start_ft, req.h_target_ft, env)
    /\ phase' = "returned"
    /\ UNCHANGED <<ac, cal, req, env, m2, m3, sweep, cruise, fit, loc>>

\* a call of descend_segment
CallDescend ==
    /\ phase = "idle"
    /\ req.fn = "descend_segment"
    /\ result' = descend_segment(RInt(req.h_start_ft), RInt(req.h_target_ft), env)
    /\ phase' = "returned"
    /\ UNCHANGED <<ac, cal, req, env, m2, m3, sweep, cruise, fit, loc>>

NextCalls ==
    \/ CallClimb
    \/ CallDescend
    \/ CallReserveFuel
    \/ CallTemperature
    \/ CallSpeedOfSound
    \/ CallMaxAltitude
    \/ BisectionIterate
    \/ BisectionReturn

SpecCalls == InitCalls /\ [][NextCalls]_vars

(***************************************************************************)
(* calibration.py: calibration_error, calibrate_aircraft and               *)
(* calibrate_p8_from_737.  A parameter vector is <<CD0, e, k_adj, f_oh>>.  *)
(* A calibration point is <<payload_lb, fuel_lb, range_nmi>>.  What        *)
(* step_cruise_range gives for a vector is read from the physics: the      *)
(* cruise range that misses what the published point needs by a fixed      *)
(* relative amount, or an exception.                                       *)
(***************************************************************************)
CD0_BOUNDS == << Rat(15, 1000), Rat(40, 1000) >>
E_BOUNDS == << Rat(65, 100), Rat(90, 100) >>
K_ADJ_BOUNDS == << Rat(80, 100), Rat(120, 100) >>
F_OH_BOUNDS == << Rat(5, 100), Rat(25, 100) >>

\* the list "bounds" of calibrate_aircraft
ParameterBounds == << CD0_BOUNDS, E_BOUNDS, K_ADJ_BOUNDS, F_OH_BOUNDS >>

InBounds(x) ==
    \A i \in 1..4 : RGe(x[i], ParameterBounds[i][1]) /\ RLe(x[i], ParameterBounds[i][2])

\* the value 1e6 that calibration_error gives for a vector it rejects
INVALID_ERROR == RInt(1000000)

\* float('nan')
NaN == <<"nan">>

\* x0 of the local-only branch of calibrate_aircraft
X_LOCAL_START == << Rat(25, 1000), Rat(80, 100), RInt(1), Rat(12, 100) >>
\* a vector inside the bounds, with e within 0.025 of its upper bound
X_INSIDE == << Rat(20, 1000), Rat(89, 100), Rat(90, 100), Rat(10, 100) >>
\* a vector of positive components with k_adj below its lower bound
X_OUTSIDE == << Rat(20, 1000), Rat(85, 100), Rat(121, 200), Rat(10, 100) >>

PositiveVectors == { X_LOCAL_START, X_INSIDE, X_OUTSIDE }

NonPositiveVectors ==
    { [X_INSIDE EXCEPT ![i] = v] : i \in 1..4, v \in { RZero, Rat(-1, 100) } }

PT_LONG == << 0, 1000, 1500 >>
PT_MID == << 500, 800, 1000 >>
\* a point with so little fuel that an overhead fraction of 0.12 leaves none
PT_SHORT == << 0, 250, 400 >>
\* a point without a published range
PT_BLANK == << 1000, 0, 0 >>

CalibrationAircraft ==
    { [ designation |-> "ONE", OEW |-> 2000, range_payload_points |-> << PT_LONG >> ],
      [ designation |-> "TWO", OEW |-> 2000, range_payload_points |-> << PT_LONG, PT_MID >> ],
      [ designation |-> "SHORT", OEW |-> 2000, range_payload_points |-> << PT_LONG, PT_SHORT >> ],
      [ designation |-> "THREE", OEW |-> 2000,
        range_payload_points |-> << PT_LONG, PT_MID, PT_SHORT >> ],
      [ designation |-> "BLANK", OEW |-> 2000, range_payload_points |-> << PT_BLANK, PT_BLANK >> ] }

P8Aircraft ==
    { [ designation |-> "P-8", OEW |-> 2000, range_payload_points |-> << >> ],
      [ designation |-> "P-8", OEW |-> 2000, range_payload_points |-> << PT_MID >> ],
      [ designation |-> "P-8", OEW |-> 2000, range_payload_points |-> << PT_LONG, PT_MID >> ] }

\* how step_cruise_range answers for a vector
CruiseOutcomes == { "exact", "three", "five", "raises" }

Miss(outcome) ==
    CASE outcome = "exact" -> RZero
      [] outcome = "three" -> Rat(3, 100)
      [] outcome = "five" -> Rat(5, 100)

CruisePhysics == [ PositiveVectors -> CruiseOutcomes ]

\* result["range_nm"] of performance.step_cruise_range at vector x for a point
StepCruiseRange(f, x, point) ==
    IF f[x] = "raises" THEN ValueError
    ELSE RSub(RMul(RInt(point[3]), RAdd(RInt(1), Miss(f[x]))),
              RInt(CLIMB_DISTANCE_NM + DESCENT_DISTANCE_NM))

compute_calibration_range(a, payload_lb, fuel_lb, x, cruise_range) ==
    LET W_tow == RInt(a.OEW + payload_lb + fuel_lb)
        overhead == RMul(x[4], W_tow)
        cruise_fuel == RSub(RInt(fuel_lb), overhead)
    IN  IF RLe(cruise_fuel, RZero) THEN RZero
        ELSE IF cruise_range = ValueError THEN ValueError
        ELSE RAdd(RAdd(cruise_range, RInt(CLIMB_DISTANCE_NM)), RInt(DESCENT_DISTANCE_NM))

\* math.sqrt of a non-negative number, rounded down to three decimals
sqrt(q) == Rat(IntegerRoot(RFloor(RMul(q, RInt(1000000))), 0, 40000), 1000)

RECURSIVE RSum(_)
RSum(s) == IF s = << >> THEN RZero ELSE RAdd(Head(s), RSum(Tail(s)))

\* a loop body that lets a failed prediction count as a perfect one
PointError_forgiving(target_range, predicted) ==
    IF predicted = ValueError THEN RZero
    ELSE IF RLe(predicted, RZero) THEN RZero
    ELSE RMul(RDiv(RSub(predicted, RInt(target_range)), RInt(target_range)),
              RDiv(RSub(predicted, RInt(target_range)), RInt(target_range)))

\* what one calibration point appends to "errors"
PointError(target_range, predicted) ==
    IF predicted = ValueError THEN RInt(1)
    ELSE IF RLe(predicted, RZero) THEN RInt(1)
    ELSE RMul(RDiv(RSub(predicted, RInt(target_range)), RInt(target_range)),
              RDiv(RSub(predicted, RInt(target_range)), RInt(target_range)))

\* the loop of calibration_error over the calibration points
RECURSIVE ErrorLoop(_, _, _, _, _)
ErrorLoop(x, a, points, f, errors) ==
    IF points = << >> THEN errors
    ELSE IF Head(points)[3] <= 0 THEN ErrorLoop(x, a, Tail(points), f, errors)
    ELSE ErrorLoop(x, a, Tail(points), f,
             Append(errors,
                 PointError(Head(points)[3],
                     compute_calibration_range(a, Head(points)[1], Head(points)[2], x,
                         StepCruiseRange(f, x, Head(points))))))

\* the return of calibration_error after its loop; "evaluated" counts the
\* calls of compute_calibration_range, one for each error appended
ErrorReturn(errors) ==
    IF errors = << >>
    THEN [ value |-> INVALID_ERROR, errors |-> errors, evaluated |-> 0 ]
    ELSE [ value |-> sqrt(RDiv(RSum(errors), RInt(Len(errors)))),
           errors |-> errors, evaluated |-> Len(errors) ]

calibration_error(x, a, points, f) ==
    IF RLe(x[1], RZero) \/ RLe(x[2], RZero) \/ RLe(x[3], RZero) \/ RLe(x[4], RZero)
    THEN [ value |-> INVALID_ERROR, errors |-> << >>, evaluated |-> 0 ]
    ELSE ErrorReturn(ErrorLoop(x, a, points, f, << >>))

\* the closure "objective" of calibrate_aircraft and calibrate_p8_from_737
objective(x, a, f) == calibration_error(x, a, a.range_payload_points, f).value

\* what scipy's differential_evolution may return: a vector within the bounds
\* it was given, and the objective there
differential_evolution(a, f) ==
    { [ x |-> x, fun |-> objective(x, a, f) ] : x \in { v \in PositiveVectors : InBounds(v) } }

\* what scipy's minimize(method="Nelder-Mead") may return when it is given no
\* bounds: some vector, and the objective there
minimize(a, f) ==
    { [ x |-> x, fun |-> objective(x, a, f) ] : x \in PositiveVectors }

Methods == { "two_stage", "global_only", "local_only" }

CalibrationRequests ==
    [ fn : { "calibration_error" }, params : PositiveVectors \cup NonPositiveVectors ]
    \cup [ fn : { "calibrate_aircraft" }, method : Methods ]

\* the convergence test of calibrate_aircraft
ConvergenceThreshold(cal_points) == IF Len(cal_points) >= 3 THEN Rat(5, 100) ELSE Rat(3, 100)

\* a convergence test that lets a fit exactly at the threshold pass
Converged_inclusive(f_best, cal_points) == RLe(f_best, ConvergenceThreshold(cal_points))

Converged(f_best, cal_points) == RLt(f_best, ConvergenceThreshold(cal_points))

\* a test that also takes a local result that is merely as good
LocalImproves_or_equal(result_local, f_best) == RLe(result_local.fun, f_best)

\* "if result_local.fun < f_best" of the two-stage branch
LocalImproves(result_local, f_best) == RLt(result_local.fun, f_best)

\* the dict that calibrate_aircraft returns, without its diagnostics
CalibrationResult(a, x_best, f_best) ==
    [ CD0 |-> x_best[1], e |-> x_best[2], k_adj |-> x_best[3], f_oh |-> x_best[4],
      rms_error |-> f_best,
      converged |-> Converged(f_best, a.range_payload_points),
      aircraft_designation |-> a.designation ]

OSWALD_DELTA == Rat(25, 1000)

\* a derivation that forgets the cap on the Oswald efficiency
P8Start_uncapped(cal_737) ==
    << cal_737.CD0, RAdd(cal_737.e, OSWALD_DELTA), cal_737.k_adj, cal_737.f_oh >>

\* the vector that calibrate_p8_from_737 starts from
P8Start(cal_737) ==
    << cal_737.CD0, RMin(RAdd(cal_737.e, OSWALD_DELTA), Rat(90, 100)),
       cal_737.k_adj, cal_737.f_oh >>

\* the dict that calibrate_p8_from_737 returns, without its diagnostics
P8Result(x, rms_err) ==
    [ CD0 |-> x[1], e |-> x[2], k_adj |-> x[3], f_oh |-> x[4],
      rms_error |-> rms_err,
      converged |-> IF rms_err = NaN THEN TRUE ELSE RLt(rms_err, Rat(10, 100)),
      aircraft_designation |-> "P-8",
      derived_from |-> "737-900ER",
      oswald_delta |-> OSWALD_DELTA ]

InitCal ==
    /\ phase = "idle"
    /\ ac \in CalibrationAircraft
    /\ req \in CalibrationRequests
    /\ env \in CruisePhysics
    /\ cal = None
    /\ fit = None
    /\ loc = None
    /\ m2 = None
    /\ m3 = None
    /\ sweep = None
    /\ cruise = None
    /\ result = None

\* a call of calibration_error
CallCalibrationError ==
    /\ phase = "idle"
    /\ req.fn = "calibration_error"
    /\ result' = calibration_error(req.params, ac, ac.range_payload_points, env)
    /\ phase' = "returned"
    /\ UNCHANGED <<ac, cal, req, env, m2, m3, sweep, cruise, fit, loc>>

\* calibrate_aircraft up to its choice of a search
CallCalibrateAircraft ==
    /\ phase = "idle"
    /\ req.fn = "calibrate_aircraft"
    /\ IF Len(ac.range_payload_points) < 2
       THEN /\ phase' = "raised"
            /\ fit' = fit
       ELSE /\ phase' = IF req.method \in { "two_stage", "global_only" }
                        THEN "global" ELSE "local_only"
            /\ fit' = [ x_best |-> None, f_best |-> None, result_global |-> None,
                        result_local |-> None, searches |-> << >> ]
    /\ UNCHANGED <<ac, cal, req, env, m2, m3, sweep, cruise, result, loc>>

\* the global stage: differential_evolution over the bounds
GlobalSearch ==
    /\ phase = "global"
    /\ \E result_global \in differential_evolution(ac, env) :
          fit' = [fit EXCEPT
                    !.x_best = result_global.x,
                    !.f_best = result_global.fun,
                    !.result_global = result_global,
                    !.searches = Append(@, [ optimizer |-> "differential_evolution",
                                             x0 |-> None ])]
    /\ phase' = IF req.method = "two_stage" THEN "local" ELSE "report"
    /\ UNCHANGED <<ac, cal, req, env, m2, m3, sweep, cruise, result, loc>>

\* the local stage: Nelder-Mead from the global optimum
LocalRefine ==
    /\ phase = "local"
    /\ \E result_local \in minimize(ac, env) :
          fit' = [fit EXCEPT
                    !.x_best = IF LocalImproves(result_local, fit.f_best)
                               THEN result_local.x ELSE @,
                    !.f_best = IF LocalImproves(result_local, fit.f_best)
                               THEN result_local.fun ELSE @,
                    !.result_local = result_local,
                    !.searches = Append(@, [ optimizer |-> "Nelder-Mead",
                                             x0 |-> fit.x_best ])]
    /\ phase' = "report"
    /\ UNCHANGED <<ac, cal, req, env, m2, m3, sweep, cruise, result, loc>>

\* the local-only branch: Nelder-Mead from a fixed vector
LocalOnly ==
    /\ phase = "local_only"
    /\ \E result_local \in minimize(ac, env) :
          fit' = [fit EXCEPT
                    !.x_best = result_local.x,
                    !.f_best = result_local.fun,
                    !.result_local = result_local,
                    !.searches = Append(@, [ optimizer |-> "Nelder-Mead",
                                             x0 |-> X_LOCAL_START ])]
    /\ phase' = "report"
    /\ UNCHANGED <<ac, cal, req, env, m2, m3, sweep, cruise, result, loc>>

\* the return statement of calibrate_aircraft
CalibrateReturn ==
    /\ phase = "report"
    /\ result' = CalibrationResult(ac, fit.x_best, fit.f_best)
    /\ phase' = "returned"
    /\ UNCHANGED <<ac, cal, req, env, m2, m3, sweep, cruise, fit, loc>>

\* run_calibration.py: the P-8 is derived from the calibration just made;
\* calibrate_p8_from_737 up to its test of the number of points
CallP8 ==
    /\ phase = "returned"
    /\ req.fn = "calibrate_aircraft"
    /\ cal' = result
    /\ ac' \in P8Aircraft
    /\ req' = [ fn |-> "calibrate_p8_from_737" ]
    /\ fit' = [ x0 |-> P8Start(result), x |-> P8Start(result), rms_err |-> None,
                searches |-> << >> ]
    /\ result' = None
    /\ phase' = "derived"
    /\ UNCHANGED <<env, m2, m3, sweep, cruise, loc>>

\* "if len(cal_points) >= 2": Nelder-Mead from the derived vector, else nan
P8Refine ==
    /\ phase = "derived"
    /\ IF Len(ac.range_payload_points) >= 2
       THEN \E res \in minimize(ac, env) :
               fit' = [fit EXCEPT
                         !.x = res.x,
                         !.rms_err = res.fun,
                         !.searches = Append(@, [ optimizer |-> "Nelder-Mead",
                                                  x0 |-> fit.x0 ])]
       ELSE fit' = [fit EXCEPT !.rms_err = NaN]
    /\ phase' = "derived_report"
    /\ UNCHANGED <<ac, cal, req, env, m2, m3, sweep, cruise, result, loc>>

\* the return statement of calibrate_p8_from_737
P8Return ==
    /\ phase = "derived_report"
    /\ result' = P8Result(fit.x, fit.rms_err)
    /\ phase' = "returned"
    /\ UNCHANGED <<ac, cal, req, env, m2, m3, sweep, cruise, fit, loc>>

NextCal ==
    \/ CallCalibrationError
    \/ CallCalibrateAircraft
    \/ GlobalSearch
    \/ LocalRefine
    \/ LocalOnly
    \/ CalibrateReturn
    \/ CallP8
    \/ P8Refine
    \/ P8Return

SpecCal == InitCal /\ [][NextCal]_vars

(***************************************************************************)
(* Properties of the three mission simulators (specification Spec).        *)
(***************************************************************************)
Returned == phase = "returned"

\* a simulator returned through its final return statement
Completed == Returned /\ ~result.per_aircraft.none

\* C1: in all three simulators, for max_payload P > 0 and a requested payload
\* Q > P the result has n_aircraft == ceil(Q / P), the least n with n * P >= Q,
\* and payload_actual_lb == Q / n_aircraft; for Q <= P it has n_aircraft == 1
\* and payload_actual_lb == Q.
C1_FleetSizing ==
    Returned =>
        LET Q == req.payload_lb
            P == ac.max_payload
            n == result.n_aircraft
        IN  IF Q > P
            THEN /\ n * P >= Q
                 /\ (n - 1) * P < Q
                 /\ RMul(result.payload_actual_lb, RInt(n)) = RInt(Q)
            ELSE /\ n = 1
                 /\ result.payload_actual_lb = RInt(Q)

\* a fleet of seven: 250 lb of payload on aircraft that carry 40 lb each
C1_Witness ==
    /\ Completed
    /\ req.payload_lb = 250
    /\ ac.max_payload = 40
    /\ result.n_aircraft = 7
    /\ result.payload_actual_lb = Rat(250, 7)

\* C2: in simulate_mission1_engine_out, once the payload and fuel-overhead
\* checks pass, feasible is True if and only if 200 + the segment-1 range +
\* the segment-2 range + 120 >= distance_nm and the cruise fuel minus the
\* fuel burned in both segments >= -50.
C2_Mission1Feasibility ==
    (Completed /\ req.mission = 1) =>
        LET pa == result.per_aircraft.value
            total == RAdd(RInt(200 + 120),
                          RAdd(pa.segment1.range_nm, pa.segment2.range_nm))
            left == RSub(pa.cruise_fuel_lb,
                         RAdd(pa.segment1.fuel_burned_lb, pa.segment2.fuel_burned_lb))
        IN  /\ pa.total_range_nm = total
            /\ result.feasible <=>
                   (RGe(total, RInt(req.distance_nm)) /\ RGe(left, RInt(-50)))

\* a feasible mission whose total range is exactly the distance required
C2_Witness ==
    /\ Completed
    /\ req.mission = 1
    /\ result.feasible
    /\ result.per_aircraft.value.total_range_nm = RInt(req.distance_nm)

\* C3 as stated: in each simulator, whenever OEW plus the requested payload
\* exceeds MTOW the result is infeasible with the reason
\* 'Cannot carry payload within MTOW'.
C3_RequestedPayloadOverMTOW ==
    (Returned /\ ac.OEW + req.payload_lb > ac.MTOW) =>
        /\ result.feasible = FALSE
        /\ result.infeasible_reason = Some(REASON_PAYLOAD)

\* C3, amended: in each simulator, whenever OEW plus the payload each
\* aircraft carries after fleet sizing (payload_actual_lb) exceeds MTOW the
\* result is infeasible with the reason 'Cannot carry payload within MTOW'.
C3_ActualPayloadOverMTOW ==
    (Returned /\ RGt(RAdd(RInt(ac.OEW), result.payload_actual_lb), RInt(ac.MTOW))) =>
        /\ result.feasible = FALSE
        /\ result.infeasible_reason = Some(REASON_PAYLOAD)
        /\ result.per_aircraft = None

\* a fleet of two whose aircraft are each still too heavy
C3_Witness ==
    /\ Returned
    /\ result.n_aircraft = 2
    /\ RGt(RAdd(RInt(ac.OEW), result.payload_actual_lb), RInt(ac.MTOW))
    /\ result.infeasible_reason = Some(REASON_PAYLOAD)

ReasonTexts ==
    { REASON_PAYLOAD, REASON_NO_CRUISE_FUEL, REASON_NO_MISSION_FUEL, REASON_RANGE,
      REASON_RESERVE, REASON_BOTH, REASON_UNKNOWN, REASON_ENDURANCE }

\* C4: every result of the three simulators has infeasible_reason None
\* exactly when feasible is True, and a non-empty text when feasible is
\* False; no call ends by raising instead of returning.
C4_ReasonPairsWithFlag ==
    /\ phase # "raised"
    /\ Returned =>
           /\ result.feasible \in BOOLEAN
           /\ (result.infeasible_reason = None) <=> result.feasible
           /\ ~result.feasible =>
                  /\ result.infeasible_reason.value \in ReasonTexts
                  /\ result.infeasible_reason.value # ""

\* a sampling mission that ran its cycles and fell short of the distance
C4_Witness ==
    /\ Completed
    /\ req.mission = 2
    /\ ~result.feasible
    /\ result.infeasible_reason = Some(REASON_RANGE)
    /\ result.per_aircraft.value.n_cycles > 0

(***************************************************************************)
(* Properties of the sampling-mission cycle loop (specification Spec).     *)
(***************************************************************************)
InSampling == req.mission = 2 /\ "exit" \in DOMAIN m2

\* the share of a climb step that lies at or below the cap
ShareBelow(step, cap) ==
    IF step.h_end_ft <= cap THEN RInt(1)
    ELSE IF step.h_start_ft < cap
    THEN Rat(cap - step.h_start_ft, step.h_end_ft - step.h_start_ft)
    ELSE RZero

RECURSIVE SumBelow(_, _, _, _)
SumBelow(steps, cap, field, i) ==
    IF i > Len(steps) THEN RZero
    ELSE RAdd(RMul(steps[i][field], ShareBelow(steps[i], cap)),
              SumBelow(steps, cap, field, i + 1))

\* C8: in simulate_mission2_sampling the ceiling_ft of every recorded cycle
\* never exceeds service_ceiling_ft; when the thrust-limited ceiling of a
\* climb exceeds the cap, the climb fuel, distance and time of the cycle are
\* the sums over the climb steps up to the cap, the crossing step scaled
\* linearly, and do not exceed the untruncated totals.
C8_CeilingCap ==
    InSampling =>
        /\ \A i \in 1..Len(m2.cycles) :
              RLe(m2.cycles[i].ceiling_ft, RInt(ac.service_ceiling_ft))
        /\ ~m2.capped.none =>
              LET raw == m2.climb_result.value
                  cut == m2.capped.value
                  cap == ac.service_ceiling_ft
              IN  /\ RLe(cut.cycle_ceiling, RInt(cap))
                  /\ raw.ceiling_ft > cap =>
                        /\ cut.cycle_ceiling = RInt(cap)
                        /\ cut.climb_fuel = SumBelow(raw.steps, cap, "fuel_lb", 1)
                        /\ cut.climb_dist = SumBelow(raw.steps, cap, "distance_nm", 1)
                        /\ cut.climb_time = SumBelow(raw.steps, cap, "time_hr", 1)
                        /\ RLe(cut.climb_fuel, raw.fuel_burned_lb)
                        /\ RLe(cut.climb_dist, raw.distance_nm)
                        /\ RLe(cut.climb_time, raw.time_hr)

\* a climb that ran to the 11,500 ft target, cut at the 6,500 ft cap in the
\* middle of its second step, and recorded as a cycle
C8_Witness ==
    /\ InSampling
    /\ ~m2.capped.none
    /\ m2.climb_result.value.ceiling_ft = 11500
    /\ ac.service_ceiling_ft = 6500
    /\ RLt(m2.capped.value.climb_fuel, m2.climb_result.value.fuel_burned_lb)
    /\ RGt(m2.capped.value.climb_fuel, m2.climb_result.value.steps[1].fuel_lb)
    /\ Len(m2.cycles) > 0
    /\ m2.cycles[Len(m2.cycles)].ceiling_ft = RInt(6500)

\* C9: in simulate_mission2_sampling a cycle whose climb gains nothing
\* (distance <= 0 and fuel <= 0) ends the loop at once and is not recorded;
\* when it is the first cycle the result has n_cycles == 0 and is infeasible.
C9_ZeroProgressBreaks ==
    InSampling =>
        /\ (/\ ~m2.capped.none
            /\ RLe(m2.capped.value.climb_dist, RZero)
            /\ RLe(m2.capped.value.climb_fuel, RZero)) =>
               /\ m2.exit = "zero_progress"
               /\ Len(m2.cycles) = m2.cycle_num - 1
        /\ m2.exit = "zero_progress" =>
               /\ \A i \in 1..Len(m2.cycles) : ~m2.cycles[i].partial
               /\ (Returned /\ m2.cycle_num = 1) =>
                      /\ result.per_aircraft.value.n_cycles = 0
                      /\ result.feasible = FALSE

\* the first climb gains nothing and the simulator has returned
C9_Witness ==
    /\ InSampling
    /\ Returned
    /\ m2.exit = "zero_progress"
    /\ m2.cycle_num = 1
    /\ m2.climb_result.value.steps = <<>>
    /\ result.per_aircraft.value.n_cycles = 0

\* the loop has ended and its last climb made progress
EndedAfterProgress ==
    /\ InSampling
    /\ Returned
    /\ m2.exit # "zero_progress"
    /\ Len(m2.cycles) > 0

\* C10 as stated: in simulate_mission2_sampling, whenever the cycle loop has
\* ended after a climb that made progress, distance_covered >= distance_nm
\* or fuel_remaining == 0.
C10_EndsAtDistanceOrEmpty ==
    EndedAfterProgress =>
        \/ RGe(m2.distance_covered, RInt(req.distance_nm))
        \/ m2.fuel_remaining = RZero

\* C10, amended: whenever the cycle loop has ended after a climb that made
\* progress, distance_covered >= distance_nm, or fuel_remaining == 0, or
\* max_cycles full cycles have been flown.
C10_EndsAtDistanceEmptyOrLimit ==
    EndedAfterProgress =>
        \/ RGe(m2.distance_covered, RInt(req.distance_nm))
        \/ m2.fuel_remaining = RZero
        \/ /\ Len(m2.cycles) = req.max_cycles
           /\ \A i \in 1..Len(m2.cycles) : ~m2.cycles[i].partial

\* max_cycles cycles flown, fuel left, the distance not covered
C10_Witness ==
    /\ EndedAfterProgress
    /\ m2.exit = "max_cycles"
    /\ Len(m2.cycles) = req.max_cycles
    /\ RGt(m2.fuel_remaining, RZero)
    /\ RLt(m2.distance_covered, RInt(req.distance_nm))

RECURSIVE SumCycleFuel(_, _)
SumCycleFuel(cycles, i) ==
    IF i > Len(cycles) THEN RZero
    ELSE RAdd(cycles[i].total_fuel_lb, SumCycleFuel(cycles, i + 1))

InSizing == req.mission = 3 /\ "iteration" \in DOMAIN m3

\* the loop counts at most 20 iterations; converged means that the last
\* candidate is within 50 lb of the one before it and that the simulation
\* kept is the one flown at that load; a result without convergence comes
\* after 20 iterations, at the maximum fuel available
SizingLoopState ==
    InSizing =>
        /\ m3.iteration <= FUEL_ITER_MAX
        /\ m3.converged =>
              /\ RLt(RAbs(RSub(m3.total_fuel_candidate, m3.prev_total_fuel)),
                     RInt(FUEL_ITER_TOL_LB))
              /\ ~m3.sim.none
              /\ m3.sim.value.steps[1].W_start_lb
                    = RAdd(m3.W_empty_with_payload, m3.total_fuel_candidate)
        /\ (Returned /\ Completed) =>
              LET pa == result.per_aircraft.value
              IN  /\ pa.fuel_sizing_converged = m3.converged
                  /\ ~m3.converged =>
                        /\ m3.iteration = FUEL_ITER_MAX
                        /\ pa.total_fuel_lb = pa.max_fuel_available_lb
                        /\ pa.takeoff_weight_lb
                              = RAdd(m3.W_empty_with_payload, pa.max_fuel_available_lb)
                        /\ pa.steps[1].W_start_lb = pa.takeoff_weight_lb

\* an iteration that does not return early converges exactly when its
\* candidate is within 50 lb of the previous one, and otherwise counts
SizingLoopStep ==
    (InSizing /\ phase = "m3_loop" /\ phase' = "m3_loop" /\ m3' # m3) =>
        LET stable == RLt(RAbs(RSub(m3'.total_fuel_candidate, m3.prev_total_fuel)),
                          RInt(FUEL_ITER_TOL_LB))
        IN  /\ ~m3.converged
            /\ m3.iteration < FUEL_ITER_MAX
            /\ m3'.converged <=> stable
            /\ m3'.iteration = IF stable THEN m3.iteration ELSE m3.iteration + 1

\* C12: the fuel-sizing loop of simulate_mission3_low_altitude runs at most
\* 20 iterations, stops as converged as soon as the candidate total fuel is
\* within 50 lb of the previous candidate (after one final endurance
\* simulation at that load), and when the cap is reached without convergence
\* the result is computed with total fuel equal to the maximum fuel available
\* and fuel_sizing_converged == False.
C12_SizingLoopBounded == []SizingLoopState /\ [][SizingLoopStep]_vars

\* twenty iterations, each 111 lb above the one before, then the fallback
C12_Witness ==
    /\ InSizing
    /\ Returned
    /\ ~m3.converged
    /\ m3.iteration = FUEL_ITER_MAX
    /\ result.per_aircraft.value.total_fuel_lb = RInt(ac.max_fuel)
    /\ ~result.per_aircraft.value.fuel_sizing_converged
    /\ result.feasible

\* the fields of SamplingStart that the cycle loop never writes
SamplingBudget(st) ==
    <<st.actual_payload, st.n_aircraft, st.fuel_available, st.W_tow,
      st.reserve_fuel, st.mission_fuel, st.hard_ceiling, st.climb_ceiling>>

\* C13: simulate_mission2_sampling and simulate_mission3_low_altitude do not
\* use f_oh: called with any calibration that differs from the given one in
\* f_oh only, the sampling mission starts its cycle loop from the same fuel
\* budget and returns its result from the loop state alone, the endurance
\* mission returns the identical result, and in both the mission fuel is the
\* total fuel minus the computed reserve.
C13_OverheadFractionUnused ==
    /\ InSampling =>
          /\ \A c2 \in Calibrations :
                SamplingBudget(SamplingStart(ac, c2, env.fixed_reserves, req.payload_lb))
                    = SamplingBudget(m2)
          /\ m2.reserve_fuel = compute_reserve_fuel(m2.fuel_available, env.fixed_reserves)
          /\ m2.mission_fuel = RSub(m2.fuel_available, m2.reserve_fuel)
          /\ Returned =>
                /\ result = SamplingResult(ac, m2, req.payload_lb, req.distance_nm,
                                           req.h_low_ft)
                /\ result.per_aircraft.value.mission_fuel_lb
                      = RSub(result.per_aircraft.value.total_fuel_lb,
                             result.per_aircraft.value.reserve_fuel_lb)
    /\ (req.mission = 2 /\ Returned /\ ~InSampling) =>
          \A c2 \in Calibrations :
             LET st == SamplingStart(ac, c2, env.fixed_reserves, req.payload_lb)
             IN  /\ RLe(st.fuel_available, RZero) \/ RLe(st.mission_fuel, RZero)
                 /\ result = infeasible_result(ac, req.payload_lb, st.actual_payload,
                                 st.n_aircraft,
                                 IF RLe(st.fuel_available, RZero) THEN REASON_PAYLOAD
                                 ELSE REASON_NO_MISSION_FUEL)
    /\ (req.mission = 3 /\ Returned) =>
          /\ \A c2 \in Calibrations :
                result = simulate_mission3_low_altitude(ac, c2, req.payload_lb,
                             req.duration_hr, req.n_steps, env.fixed_reserves,
                             env.fuel_flow)
          /\ Completed =>
                LET pa == result.per_aircraft.value
                IN  /\ pa.reserve_fuel_lb
                          = compute_reserve_fuel(pa.total_fuel_lb, env.fixed_reserves)
                    /\ pa.mission_fuel_lb = RSub(pa.total_fuel_lb, pa.reserve_fuel_lb)

\* a sampling mission returned under the calibration with f_oh = 1/2, which
\* would take half of the take-off weight out of the fuel if it were used
C13_Witness ==
    /\ InSampling
    /\ Returned
    /\ cal.f_oh = Rat(1, 2)
    /\ result.feasible
    /\ RGt(result.per_aircraft.value.mission_fuel_lb,
           RMul(Rat(1, 2), result.per_aircraft.value.total_fuel_lb))

\* the specific ranges that the two cruise calls of a mission-1 request can meet
Mission1Physics(r) ==
    [1..(2 * r.n_steps_per_segment) -> SpecificRanges]
        \X [1..r.n_steps_per_segment -> SpecificRanges]

\* simulate_mission1_engine_out for the request of the state, at the distance
\* d and under the physics ph
Mission1At(d, ph) ==
    simulate_mission1_engine_out(ac, cal, req.payload_lb, d, req.failure_point_nm,
                                 req.n_steps_per_segment, ph[1], ph[2])

\* C14: for simulate_mission1_engine_out with aircraft, calibration, payload,
\* failure point and physics held fixed, a mission that is infeasible at the
\* distance d is infeasible at every distance d' > d.
C14_FeasibilityMonotone ==
    (req.mission = 1 /\ Returned) =>
        \A ph \in Mission1Physics(req) :
            (Mission1At(req.distance_nm, ph) = result /\ ~result.feasible) =>
                \A d2 \in Distances :
                    d2 > req.distance_nm => ~Mission1At(d2, ph).feasible

\* completed and infeasible at the shorter distance, for want of range only
C14_Witness ==
    /\ req.mission = 1
    /\ Completed
    /\ ~result.feasible
    /\ result.infeasible_reason = Some(REASON_RANGE)
    /\ \E d2 \in Distances : d2 > req.distance_nm

(***************************************************************************)
(* Properties of optimal_cruise_altitude (specification SpecAlt).          *)
(***************************************************************************)
Swept == "returned" \in DOMAIN sweep /\ ~sweep.returned.none

\* the candidates of the sweep: h_min + k * h_step, not above ceiling_ft
Candidates ==
    { h \in { req.h_min + k * req.h_step : k \in 0..(AltPoints + 1) } :
        h <= req.ceiling_ft }

\* the candidate of a trace entry passes both checks
PassesBoth(e) ==
    /\ RLe(e.CL, req.CL_max_cruise)
    /\ req.engine_data =>
          RGe(RInt(e.thrust_avail), RMul(RInt(e.drag_lbf), req.drag_multiplier))

\* C5: optimal_cruise_altitude sweeps upward from h_min in h_step
\* increments; at the first candidate whose CL exceeds CL_max_cruise the
\* sweep ends and no altitude at or above it is evaluated or returned; at a
\* candidate where the thrust available is below drag * drag_multiplier the
\* candidate is not selected but the sweep continues.
C5_BreakOnLiftSkipOnThrust ==
    Swept =>
        \A i \in 1..Len(sweep.trace) :
            LET e == sweep.trace[i]
            IN  /\ e.h = req.h_min + (i - 1) * req.h_step
                /\ RGt(e.CL, req.CL_max_cruise) =>
                      /\ i = Len(sweep.trace)
                      /\ sweep.returned.value < e.h
                /\ (RLe(e.CL, req.CL_max_cruise) /\ ~PassesBoth(e)) =>
                      /\ e.outcome = "skip"
                      /\ (e.h + req.h_step <= req.ceiling_ft) => i < Len(sweep.trace)

\* C6: the altitude returned by optimal_cruise_altitude is a candidate of
\* the sweep that satisfies both constraints and has the largest specific
\* range among all candidates that satisfy them.
C6_ReturnsBestCandidate ==
    Swept =>
        /\ \A h \in Candidates :
              (\A i \in 1..Len(sweep.trace) : sweep.trace[i].h # h) =>
                  RGt(lift_coefficient(req.weight_lb, h), req.CL_max_cruise)
        /\ \E i \in 1..Len(sweep.trace) :
              LET e == sweep.trace[i]
              IN  /\ e.h = sweep.returned.value
                  /\ e.h \in Candidates
                  /\ PassesBoth(e)
                  /\ \A j \in 1..Len(sweep.trace) :
                        PassesBoth(sweep.trace[j]) =>
                            sweep.trace[j].SR_nm_per_lb <= e.SR_nm_per_lb

(***************************************************************************)
(* Properties of step_cruise_range (specification SpecCruise).             *)
(***************************************************************************)
InCruise == "st" \in DOMAIN cruise

ErrorReturned == phase = "returned" /\ req.fn = "calibration_error"

NonPositive(x) == \E i \in 1..4 : RLe(x[i], RZero)

\* the calibration points that the loop of calibration_error does not skip
TargetPoints(a) == SelectSeq(a.range_payload_points, LAMBDA point : point[3] > 0)

\* what compute_calibration_range gives at the j-th point that is not skipped
PredictionAt(j) ==
    compute_calibration_range(ac, TargetPoints(ac)[j][1], TargetPoints(ac)[j][2],
        req.params, StepCruiseRange(env, req.params, TargetPoints(ac)[j]))

\* C15: calibration_error answers a parameter vector that has a non-positive
\* component with 1e6 and evaluates no calibration point for it; for a vector
\* of positive components it returns a number, having counted a squared error
\* of exactly 1 for every point whose prediction raised or was not positive.
C15_RejectsNonPositive ==
    ErrorReturned =>
        IF NonPositive(req.params)
        THEN /\ result.value = INVALID_ERROR
             /\ result.evaluated = 0
             /\ result.errors = << >>
        ELSE /\ result.value # ValueError
             /\ Len(result.errors) = Len(TargetPoints(ac))
             /\ \A j \in 1..Len(result.errors) :
                   (PredictionAt(j) = ValueError \/ RLe(PredictionAt(j), RZero))
                       => result.errors[j] = RInt(1)

\* a vector whose only fault is f_oh = 0 is rejected for an aircraft whose
\* three points the physics would have fitted exactly
C15_Witness ==
    /\ ErrorReturned
    /\ req.params = [X_INSIDE EXCEPT ![4] = RZero]
    /\ ac.designation = "THREE"
    /\ \A x \in PositiveVectors : env[x] = "exact"
    /\ result.value = INVALID_ERROR
    /\ result.evaluated = 0

\* calibrate_aircraft returned from its two-stage branch
TwoStageReturned ==
    phase = "returned" /\ req.fn = "calibrate_aircraft" /\ req.method = "two_stage"

ReturnedVector == << result.CD0, result.e, result.k_adj, result.f_oh >>

\* C16: the two-stage calibrate_aircraft returns the Nelder-Mead result when
\* its objective value is strictly below that of the differential-evolution
\* result and the differential-evolution result otherwise; the returned
\* rms_error is never above the objective value of the global stage, and it
\* is the objective value at the returned parameters.
C16_LocalOnlyIfStrictlyLower ==
    TwoStageReturned =>
        /\ IF RLt(fit.result_local.fun, fit.result_global.fun)
           THEN /\ ReturnedVector = fit.result_local.x
                /\ result.rms_error = fit.result_local.fun
           ELSE /\ ReturnedVector = fit.result_global.x
                /\ result.rms_error = fit.result_global.fun
        /\ RLe(result.rms_error, fit.result_global.fun)
        /\ result.rms_error = objective(ReturnedVector, ac, env)

\* the global stage ends at a 5 % fit, the local stage finds an exact one
\* elsewhere, and the exact one is returned
C16_Witness ==
    /\ TwoStageReturned
    /\ fit.result_global.fun = Rat(5, 100)
    /\ fit.result_local.fun = RZero
    /\ fit.result_local.x # fit.result_global.x
    /\ ReturnedVector = fit.result_local.x
    /\ result.rms_error = RZero

CalibrateReturned == phase = "returned" /\ req.fn = "calibrate_aircraft"

\* C17: calibrate_aircraft sets converged exactly when rms_error < 0.05 for
\* an aircraft with three or more calibration points and exactly when
\* rms_error < 0.03 for an aircraft with two; it raises only for fewer than
\* two points, so a fit at or above the threshold comes back as a result
\* with converged False.
C17_ConvergedIffBelowThreshold ==
    /\ CalibrateReturned =>
          /\ Len(ac.range_payload_points) >= 3 =>
                (result.converged <=> RLt(result.rms_error, Rat(5, 100)))
          /\ Len(ac.range_payload_points) = 2 =>
                (result.converged <=> RLt(result.rms_error, Rat(3, 100)))
    /\ (phase = "raised" /\ req.fn = "calibrate_aircraft") =>
          Len(ac.range_payload_points) < 2
    /\ (phase = "report" /\ req.fn = "calibrate_aircraft") =>
          ENABLED CalibrateReturn

\* two points fitted to exactly 3 %: returned, not converged
C17_Witness ==
    /\ CalibrateReturned
    /\ Len(ac.range_payload_points) = 2
    /\ result.rms_error = Rat(3, 100)
    /\ result.converged = FALSE

InP8 == req.fn = "calibrate_p8_from_737"

\* C18: calibrate_p8_from_737 never calls the global search; its starting
\* vector is the donor's CD0, k_adj and f_oh and e = min(donor e + 0.025,
\* 0.90); with fewer than two calibration points it returns that vector
\* without any search, and with two or more it makes one Nelder-Mead search
\* from that vector and returns what the search gives.
C18_P8DerivedLocally ==
    InP8 =>
        /\ \A i \in 1..Len(fit.searches) :
              fit.searches[i].optimizer # "differential_evolution"
        /\ fit.x0[1] = cal.CD0
        /\ fit.x0[3] = cal.k_adj
        /\ fit.x0[4] = cal.f_oh
        /\ fit.x0[2] = IF RLe(RAdd(cal.e, Rat(25, 1000)), Rat(90, 100))
                       THEN RAdd(cal.e, Rat(25, 1000)) ELSE Rat(90, 100)
        /\ phase = "returned" =>
              IF Len(ac.range_payload_points) < 2
              THEN /\ fit.searches = << >>
                   /\ ReturnedVector = fit.x0
              ELSE /\ fit.searches = << [ optimizer |-> "Nelder-Mead", x0 |-> fit.x0 ] >>
                   /\ ReturnedVector = fit.x
                   /\ result.rms_error = objective(fit.x, ac, env)

\* a donor with e = 0.89: the P-8 starts at the cap 0.90, has two points and
\* is refined by one Nelder-Mead search to another vector
C18_Witness ==
    /\ InP8
    /\ phase = "returned"
    /\ cal.e = Rat(89, 100)
    /\ fit.x0[2] = Rat(90, 100)
    /\ Len(ac.range_payload_points) = 2
    /\ Len(fit.searches) = 1
    /\ ReturnedVector # fit.x0

\* the vector calibrate_aircraft holds as x_best after a stage of its search
AfterStage == req.fn = "calibrate_aircraft" /\ phase \in { "local", "report", "returned" }

\* C19: the parameters of calibrate_aircraft stay inside the box bounds
\* 0.015 <= CD0 <= 0.040, 0.65 <= e <= 0.90, 0.80 <= k_adj <= 1.20 and
\* 0.05 <= f_oh <= 0.25, after the global stage, after the local refinement
\* stage and in the returned dict.
C19_StaysInsideBounds ==
    /\ AfterStage => InBounds(fit.x_best)
    /\ CalibrateReturned => InBounds(ReturnedVector)

\* the two-stage search returns k_adj = 0.605: the global stage ended inside
\* the bounds and the Nelder-Mead stage, which is given no bounds, found a
\* strictly better fit below the lower bound of k_adj
C19_LocalStageLeavesBounds ==
    /\ TwoStageReturned
    /\ InBounds(fit.result_global.x)
    /\ RLt(fit.result_local.fun, fit.result_global.fun)
    /\ result.k_adj = Rat(121, 200)
    /\ ~InBounds(ReturnedVector)

(***************************************************************************)
(* Properties of breguet_range_nm (specification SpecBreguet).             *)
(***************************************************************************)
BreguetDone == phase \in { "returned", "raised" }

\* the call burns fuel from a positive final weight
BurnsFuel == 0 < req.W_final_lb /\ req.W_final_lb < req.W_initial_lb

\* the range is positive, and a call that burns more fuel from the same
\* initial weight gives more
PositiveAndGrowing ==
    /\ phase = "returned"
    /\ RGt(result, RZero)
    /\ \A W \in BreguetFinalWeights :
          (0 < W /\ W < req.W_final_lb) =>
              RGt(breguet_range_nm(req.sr, RInt(req.W_initial_lb), RInt(W)), result)

\* C20 as stated: breguet_range_nm returns exactly 0 whenever W_final_lb >=
\* W_initial_lb and raises whenever W_final_lb <= 0; for 0 < W_final_lb <
\* W_initial_lb it returns a positive range that grows with the fuel burned.
C20_ZeroRaisePositive ==
    BreguetDone =>
        /\ req.W_final_lb >= req.W_initial_lb => (phase = "returned" /\ result = RZero)
        /\ req.W_final_lb <= 0 => phase = "raised"
        /\ BurnsFuel => PositiveAndGrowing

\* C20, amended: breguet_range_nm returns exactly 0 whenever W_final_lb >=
\* W_initial_lb, also when both are zero or negative; it raises whenever
\* W_final_lb <= 0 and W_final_lb < W_initial_lb; for 0 < W_final_lb <
\* W_initial_lb and a positive factor (V / c) * (L/D) it returns a positive
\* range that grows with the fuel burned from the same initial weight.
C20_ZeroBeforeRaise ==
    BreguetDone =>
        /\ req.W_final_lb >= req.W_initial_lb => (phase = "returned" /\ result = RZero)
        /\ (req.W_final_lb <= 0 /\ req.W_final_lb < req.W_initial_lb) => phase = "raised"
        /\ (BurnsFuel /\ RGt(req.sr, RZero)) => PositiveAndGrowing

\* a final weight of zero from an initial weight of -100 lb: 0 is returned
C20_Witness ==
    /\ phase = "returned"
    /\ req.W_initial_lb = -100
    /\ req.W_final_lb = 0
    /\ result = RZero

(***************************************************************************)
(* Properties of the helper functions (specification SpecCalls).           *)
(***************************************************************************)
ReserveReturned == phase = "returned" /\ req.fn = "compute_reserve_fuel"

\* C21: compute_reserve_fuel returns the smaller of (0.05 * total_fuel +
\* fixed_reserves) / 1.05 and 0.95 * total_fuel, so for every total fuel
\* >= 0 the reserve is at most 95 % of the total fuel, whatever the
\* alternate and hold fuel evaluate to.
C21_ReserveClamped ==
    ReserveReturned =>
        /\ RLe(result, Rat(95 * req.total_fuel_lb, 100))
        /\ \/ result = Rat(95 * req.total_fuel_lb, 100)
           \/ RMul(result, Rat(105, 100))
                 = RAdd(Rat(5 * req.total_fuel_lb, 100), req.fixed_reserves)
        /\ RLe(RMul(result, Rat(105, 100)),
               RAdd(Rat(5 * req.total_fuel_lb, 100), req.fixed_reserves))

\* 100 lb loaded and 1000 lb of alternate and hold fuel: the reserve is 95 lb
C21_Witness ==
    /\ ReserveReturned
    /\ req.total_fuel_lb = 100
    /\ req.fixed_reserves = RInt(1000)
    /\ result = RInt(95)

InMaxAltitude == req.fn = "max_altitude_for_thrust" /\ phase # "idle"

\* C22: max_altitude_for_thrust returns 0 without bisecting when the thrust
\* available at sea level is below the required thrust; otherwise it makes
\* exactly 50 bisection steps on [0, 55000], during which the thrust
\* available at h_low is at least the required thrust and h_low <= h_high,
\* and it returns h_low, an altitude in [0, 55000) where the thrust available
\* is at least the required thrust.
C22_BisectionKeepsFeasibleLow ==
    InMaxAltitude =>
        IF ~ThrustSuffices(env, << 0, 0 >>)
        THEN /\ phase = "returned"
             /\ result = << 0, 0 >>
             /\ loc.steps = 0
        ELSE /\ ThrustSuffices(env, loc.h_low)
             /\ WLe(loc.h_low, loc.h_high)
             /\ WLe(<< 0, 0 >>, loc.h_low)
             /\ WLe(loc.h_high, << LIMB, 0 >>)
             /\ loc.steps <= 50
             /\ phase = "returned" =>
                   /\ loc.steps = 50
                   /\ result = loc.h_low
                   /\ WLe(<< 0, 0 >>, result)
                   /\ WLt(result, << LIMB, 0 >>)
                   /\ ThrustSuffices(env, result)

\* the thrust suffices up to a ceiling inside the interval: after 50 steps the
\* altitude returned is the ceiling itself, within one unit of h_high
C22_Witness ==
    /\ InMaxAltitude
    /\ phase = "returned"
    /\ env.ceiling = << 11184810, 22369621 >>
    /\ env.band = << >>
    /\ loc.steps = 50
    /\ result = << 11184810, 22369621 >>
    /\ loc.h_high = << 11184810, 22369622 >>

C24_LapseThenIsothermal ==
    /\ (phase = "returned" /\ req.fn = "temperature") =>
          /\ req.h_ft <= 902231 =>
                \A h2 \in AltitudeSamples :
                    (req.h_ft < h2 /\ h2 <= 902231) => WLt(temperature(h2), result)
          /\ req.h_ft > 902231 => result = temperature(902231)
    /\ (phase = "returned" /\ req.fn = "speed_of_sound") =>
          \A h2 \in AltitudeSamples :
              (req.h_ft > 902231 /\ h2 > 902231) => speed_of_sound(h2) = result

\* at 70,000 ft, above the top of the lower stratosphere, the temperature is
\* that of the tropopause, 389.97577016 degrees Rankine
C24_Witness ==
    /\ phase = "returned"
    /\ req.fn = "temperature"
    /\ req.h_ft = 1750000
    /\ result = << 145, 9304487 >>


(***************************************************************************)
(* C25.  climb_segment called on its own.                                  *)
(***************************************************************************)
ClimbReturned == phase = "returned" /\ req.fn = "climb_segment"

\* what a returned climb looks like: steps of at most h_step_ft that could
\* all climb, recorded contiguously from h_start_ft to ceiling_ft, a stop at
\* the first step that cannot climb, the flag and the ceiling in agreement,
\* weights that do not grow and a bounded number of iterations
ClimbLaw ==
    LET n == Len(result.steps)
        CannotClimb(i) == \/ PhysAt(env, i).excess_thrust <= 0
                          \/ PhysAt(env, i).roc_fpm < ROC_MIN_FPM
    IN  /\ \A i \in 1..n :
              /\ result.steps[i].h_end_ft - result.steps[i].h_start_ft <= H_STEP_FT
              /\ result.steps[i].h_end_ft > result.steps[i].h_start_ft
              /\ ~CannotClimb(i)
        /\ result.ceiling_limited => CannotClimb(n + 1)
        /\ IF n = 0 THEN result.ceiling_ft = req.h_start_ft
           ELSE /\ result.steps[1].h_start_ft = req.h_start_ft
                /\ result.steps[n].h_end_ft = result.ceiling_ft
                /\ \A i \in 1..(n - 1) :
                      result.steps[i + 1].h_start_ft = result.steps[i].h_end_ft
        /\ result.ceiling_limited <=> result.ceiling_ft < req.h_target_ft
        /\ ~result.ceiling_limited => result.ceiling_ft = req.h_target_ft
        /\ n > 0 => RLe(result.steps[1].W_start_lb, RInt(req.W_start_lb))
        /\ \A i \in 1..(n - 1) :
              RLe(result.steps[i + 1].W_start_lb, result.steps[i].W_start_lb)
        /\ n = 0 \/ (n - 1) * H_STEP_FT < req.h_target_ft - req.h_start_ft

DescentReturned == phase = "returned" /\ req.fn = "descend_segment"

\* C26: climb_segment with h_start_ft >= h_target_ft returns fuel 0,
\* distance 0, time 0, no steps, ceiling_ft == h_start_ft and ceiling_limited
\* False; descend_segment with h_start_ft <= h_target_ft returns fuel 0,
\* distance 0 and time 0.  Neither call raises.
C26_ZeroContributionAtTarget ==
    /\ ClimbReturned /\ req.h_start_ft >= req.h_target_ft
          => /\ result.fuel_burned_lb = RZero
             /\ result.distance_nm = RZero
             /\ result.time_hr = RZero
             /\ result.steps = <<>>
             /\ result.ceiling_ft = req.h_start_ft
             /\ result.ceiling_limited = FALSE
    /\ DescentReturned /\ req.h_start_ft <= req.h_target_ft
          => /\ result.fuel_burned_lb = RZero
             /\ result.distance_nm = RZero
             /\ result.time_hr = RZero
    /\ req.fn \in { "climb_segment", "descend_segment" } => phase # "raised"

\* a descent asked from 5,000 ft to 10,000 ft has returned
C26_Witness ==
    /\ DescentReturned
    /\ req.h_start_ft = 5000
    /\ req.h_target_ft = 10000
    /\ result.time_hr = RZero


(***************************************************************************)
(* C27.  The fuel load and the take-off weight of every breakdown.         *)
(***************************************************************************)
\* a fuel load that is positive, fits the tanks and the take-off weight
\* limit, and a take-off weight that is the sum of its three parts
FuelLoadWithinLimits(a, payload_actual_lb, total_fuel_lb, takeoff_weight_lb) ==
    /\ RGt(total_fuel_lb, RZero)
    /\ RLe(total_fuel_lb, RInt(a.max_fuel))
    /\ RLe(total_fuel_lb, RSub(RInt(a.MTOW - a.OEW), payload_actual_lb))
    /\ takeoff_weight_lb = RAdd(RAdd(RInt(a.OEW), payload_actual_lb), total_fuel_lb)
    /\ RLe(takeoff_weight_lb, RInt(a.MTOW))

\* a fuel load of the sizing loop that has been given a take-off weight
SizedLoad == phase = "m3_loop" /\ m3.sim # None /\ ~m3.no_mission_fuel

\* C27: every returned result with a per-aircraft breakdown has
\* 0 < total_fuel_lb <= min(max_fuel, MTOW - OEW - payload_actual_lb) and
\* takeoff_weight_lb == OEW + payload_actual_lb + total_fuel_lb <= MTOW; in
\* the endurance mission the same holds for the load that each sizing
\* iteration simulates and for the max-fuel fallback.
C27_FuelLoadWithinLimits ==
    /\ phase = "returned" /\ result.per_aircraft # None
          => FuelLoadWithinLimits(ac, result.payload_actual_lb,
                                  result.per_aircraft.value.total_fuel_lb,
                                  result.per_aircraft.value.takeoff_weight_lb)
    /\ SizedLoad
          => FuelLoadWithinLimits(ac, m3.actual_payload, m3.total_fuel_candidate,
                                  m3.W_tow_candidate)

\* an endurance result that took the max-fuel fallback
C27_Witness ==
    /\ phase = "returned"
    /\ req.mission = 3
    /\ result.per_aircraft # None
    /\ ~result.per_aircraft.value.fuel_sizing_converged
    /\ result.per_aircraft.value.total_fuel_lb = FuelAvailable(ac, result.payload_actual_lb)


(***************************************************************************)
(* C28.  The reserve left by the engine-out mission, as the floats give it.*)
(***************************************************************************)
\* C28: in simulate_mission1_engine_out the fuel burned in segment 1 up to
\* the failure point plus the fuel burned in segment 2 never exceeds the
\* cruise fuel, the leftover reserve is never negative, an infeasible verdict
\* is always a range shortfall, and the reason is never 'Negative reserve
\* fuel' (alone or after a range shortfall) or 'Unknown'.
C28_ReserveNeverNegative ==
    phase = "returned" /\ req.fn = "simulate_mission1_engine_out"
        => /\ result.total_fuel_burned <= result.cruise_fuel_lb
           /\ result.reserve_remaining >= 0
           /\ ~result.feasible => env.total_range < req.distance_nm
           /\ result.infeasible_reason
                 \notin { Some(REASON_RESERVE), Some(REASON_BOTH), Some(REASON_UNKNOWN) }


(***************************************************************************)
(* C29.  The mission fuel left by the reserve clamp.                       *)
(***************************************************************************)
\* the mission fuel is at least 5 % of the fuel the reserve was computed
\* for, and strictly positive when that fuel is
FivePercentLeft(total_fuel_lb, mission_fuel_lb) ==
    /\ RGe(mission_fuel_lb, RMul(Rat(5, 100), total_fuel_lb))
    /\ RGt(total_fuel_lb, RZero) => RGt(mission_fuel_lb, RZero)

NoMissionFuelReturned ==
    phase = "returned" /\ result.infeasible_reason = Some(REASON_NO_MISSION_FUEL)

\* C29 as stated: in the sampling and endurance simulators the mission fuel
\* is at least 5 % of the fuel available, strictly positive when that is,
\* and neither simulator ever returns 'No mission fuel after reserve
\* deduction'.
C29_NoMissionFuelNeverReturned ==
    /\ InSampling => FivePercentLeft(m2.fuel_available, m2.mission_fuel)
    /\ req.mission = 3 /\ m3 # None
          => FivePercentLeft(m3.total_fuel_candidate, m3.mission_fuel_candidate)
    /\ req.mission \in {2, 3} => ~NoMissionFuelReturned

\* C29 with the endurance mission's case: the mission fuel is at least 5 %
\* of the fuel load the reserve was computed for and strictly positive when
\* that load is; simulate_mission2_sampling never returns 'No mission fuel
\* after reserve deduction', and simulate_mission3_low_altitude returns it
\* only when its sizing candidate is not positive, which needs
\* duration_hr <= 0.
C29_NoMissionFuelOnlyForEmptyLoad ==
    /\ InSampling => FivePercentLeft(m2.fuel_available, m2.mission_fuel)
    /\ req.mission = 3 /\ m3 # None
          => FivePercentLeft(m3.total_fuel_candidate, m3.mission_fuel_candidate)
    /\ req.mission = 2 => ~NoMissionFuelReturned
    /\ req.mission = 3 /\ NoMissionFuelReturned
          => /\ RLe(m3.total_fuel_candidate, RZero)
             /\ req.duration_hr <= 0
    /\ req.mission = 3 /\ phase = "returned" /\ req.duration_hr <= 0
          => result.infeasible_reason \in { Some(REASON_PAYLOAD), Some(REASON_NO_MISSION_FUEL) }

\* a sampling mission whose reserve is the clamp, 95 % of the fuel available
C29_Witness ==
    /\ InSampling
    /\ phase = "returned"
    /\ RGt(m2.fuel_available, RZero)
    /\ m2.reserve_fuel = RMul(Rat(95, 100), m2.fuel_available)
    /\ m2.mission_fuel = RMul(Rat(5, 100), m2.fuel_available)


(***************************************************************************)
(* C30.  The fuel and time accounts of _run_endurance.                     *)
(***************************************************************************)
\* the fuel burned by the first k steps
RECURSIVE BurnedThrough(_, _)
BurnedThrough(steps, k) ==
    IF k = 0 THEN RZero ELSE RAdd(BurnedThrough(steps, k - 1), steps[k].fuel_burned_lb)

\* a simulation of the endurance loop is in the state
Simulated ==
    /\ req.mission = 3
    /\ m3 # None
    /\ m3.sim # None
    /\ ~m3.no_mission_fuel

\* the accounts of the simulation sim of mission_fuel over duration_hr in
\* n_steps steps: after every step the fuel burned is within the mission
\* fuel and the time within the duration; every step but the last is a full
\* step that the fuel left could pay; a step that the fuel left could not
\* pay is the last, burns exactly what is left and leaves nothing
EnduranceAccounts(sim, mission_fuel, duration_hr, n_steps) ==
    LET n == Len(sim.steps)
        dt_hr == Rat(duration_hr, n_steps)
        Left(k) == RSub(mission_fuel, BurnedThrough(sim.steps, k))
        FullBurn(k) == RMul(RInt(sim.steps[k].fuel_flow_lbhr), dt_hr)
    IN  /\ n <= n_steps
        /\ \A k \in 1..n :
              /\ RGe(Left(k), RZero)
              /\ RLe(sim.steps[k].time_end_hr, RInt(duration_hr))
              /\ sim.steps[k].W_end_lb
                    = RSub(sim.steps[1].W_start_lb, BurnedThrough(sim.steps, k))
              /\ IF RGt(FullBurn(k), Left(k - 1))
                 THEN /\ k = n
                      /\ sim.steps[k].fuel_burned_lb = Left(k - 1)
                      /\ sim.fuel_remaining_lb = RZero
                 ELSE /\ sim.steps[k].fuel_burned_lb = FullBurn(k)
                      /\ sim.steps[k].time_end_hr = Rat(k * duration_hr, n_steps)
        /\ n < n_steps => n > 0 /\ RGt(FullBurn(n), Left(n - 1))
        /\ sim.fuel_burned_lb = BurnedThrough(sim.steps, n)
        /\ RAdd(sim.fuel_burned_lb, sim.fuel_remaining_lb) = mission_fuel
        /\ RGe(sim.fuel_remaining_lb, RZero)
        /\ RLe(sim.endurance_hr, RInt(duration_hr))

=============================================================================
